---- MODULE Spec2Model ----
(***************************************************************************)
(* A model of the life-tracker assistant: the digest rate limiter of       *)
(* newsletter.py, the task / log / profile store operations of utils.py,   *)
(* the deep merge of profile documents and the per-turn orchestration of   *)
(* get_chat_response.                                                      *)
(***************************************************************************)
EXTENDS Integers, Sequences, FiniteSets, TLC

VARIABLES
    \* ---- newsletter.py ----
    newsletter_logs,   \* the newsletter_logs table: a set of rows
    today,             \* the current calendar day
    creds,             \* what _get_email_credentials finds in the environment
    nlCall,            \* per call of send_newsletter_for_user: its local state
    \* ---- utils.py: the store ----
    tasks,             \* the tasks table: a set of rows
    next_task_id,      \* the next value of the tasks.id sequence
    now,               \* the clock: dt.datetime.now(dt.timezone.utc)
    ops,               \* number of store operations called so far
    last_result,       \* what the last store operation returned (or raised)
    \* ---- utils.py: deep_update ----
    merge_source,      \* the document merged into (argument `source`)
    merge_overrides,   \* the patch (argument `overrides`)
    merge_overrides_b, \* a second patch, for merges in either order
    merge_out,         \* the documents returned so far, in order
    merge_pc,          \* how often deep_update was applied
    \* ---- utils.py: logs, profile and one call of get_chat_response ----
    text_inputs,       \* the text_inputs table: a set of rows
    next_log_id,       \* the next value of the text_inputs.id sequence
    background_info,   \* per user: the content of the latest background_info row
    conversation_history, \* the transcript the caller passes in
    chat,              \* locals and position of the call of get_chat_response
    \* ---- utils.py: single calls of the store operations ----
    bulk,              \* a bulk replace in progress: its session and position
    task_call,         \* one call of manage_tasks: arguments, store before, result
    profile_call,      \* one profile update: arguments, content before, result
    purge_call,        \* one call of purge_user_data: its user, store before, result
    profile_sessions   \* per database session: a profile update in progress

newsVars == <<newsletter_logs, today, creds, nlCall>>

taskVars == <<tasks, next_task_id, now, ops, last_result>>

mergeVars == <<merge_source, merge_overrides, merge_overrides_b,
               merge_out, merge_pc>>

chatVars == <<text_inputs, next_log_id, background_info,
              conversation_history, chat>>

callVars == <<bulk, task_call, profile_call, purge_call, profile_sessions>>

vars == <<newsletter_logs, today, creds, nlCall,
          tasks, next_task_id, now, ops, last_result,
          merge_source, merge_overrides, merge_overrides_b, merge_out, merge_pc,
          text_inputs, next_log_id, background_info, conversation_history, chat,
          bulk, task_call, profile_call, purge_call, profile_sessions>>

UserIds == {1, 2}

(***************************************************************************)
(*                 utils.py: JSON documents and deep_update                *)
(***************************************************************************)

\* Bound of the document model: the longest list.
MaxLen == 2

\* JSON values: scalars, lists and dicts, each tagged with its Python type.
Scalar(v) == [kind |-> "scalar", v |-> v]
List(items) == [kind |-> "list", items |-> items]
Dict(fields) == [kind |-> "dict", fields |-> fields]

EmptyDict == Dict([k \in {} |-> Scalar(0)])
EmptyList == List(<<>>)

IsDict(d) == d.kind = "dict"
IsList(d) == d.kind = "list"

\* Python truthiness of a dict or list: it is not empty.
NonEmptyDict(d) == IsDict(d) /\ DOMAIN d.fields # {}
NonEmptyList(d) == IsList(d) /\ Len(d.items) > 0

Contains(items, x) == \E i \in DOMAIN items : items[i] = x

ExtendAll(items, value) == items \o value

\* `source[key].extend(item for item in value if item not in source[key])`:
\* the generator tests each item against the list as it grows.
RECURSIVE ExtendUnique(_, _)
ExtendUnique(items, value) ==
    IF value = <<>> THEN items
    ELSE ExtendUnique(IF Contains(items, Head(value)) THEN items
                      ELSE Append(items, Head(value)),
                      Tail(value))

OverridesOnly(source, overrides) == overrides

\* deep_update(source, overrides) for two dicts: the dict it returns.
RECURSIVE deep_update(_, _)
deep_update(source, overrides) ==
    LET src == source.fields
        ovr == overrides.fields
        merged(key) ==
            LET value == ovr[key]
            IN  IF NonEmptyDict(value)
                THEN LET existing_dict ==
                            IF key \in DOMAIN src /\ IsDict(src[key])
                            THEN src[key] ELSE EmptyDict
                     IN  deep_update(existing_dict, value)
                ELSE IF NonEmptyList(value)
                THEN LET existing_list ==
                            IF key \in DOMAIN src /\ IsList(src[key])
                            THEN src[key].items ELSE <<>>
                     IN  List(ExtendUnique(existing_list, value.items))
                ELSE value
    IN  Dict([key \in DOMAIN src \cup DOMAIN ovr |->
                IF key \in DOMAIN ovr THEN merged(key) ELSE src[key]])

Keys == {"goals", "user_profile"}

Scalars == {Scalar(1), Scalar(2)}

\* Lists of scalars, up to MaxLen long, repeated elements included.
ScalarLists ==
    {List(q) : q \in UNION {[1..n -> Scalars] : n \in 0..MaxLen}}

DictsOver(values) ==
    {Dict(f) : f \in UNION {[K -> values] : K \in SUBSET Keys}}

\* Dicts nested one level down.
InnerDicts == DictsOver({Scalar(1), List(<<Scalar(1)>>)})

\* The documents deep_update is applied to: dicts of scalars, lists and
\* nested dicts, the empty list and the empty dict among them.
Documents == DictsOver(Scalars \cup ScalarLists \cup InnerDicts)

MergeIdle ==
    /\ merge_source = EmptyDict
    /\ merge_overrides = EmptyDict
    /\ merge_overrides_b = EmptyDict
    /\ merge_out = <<>>
    /\ merge_pc = 0

\* What a call of get_chat_response has not yet touched: its locals before
\* the first statement runs.
IdleChat ==
    [pc |-> "idle", user_id |-> 1, audio |-> "none", entry_history |-> <<>>,
     entry_tasks |-> {}, entry_text_inputs |-> {},
     entry_background_info |-> EmptyDict,
     entry_next_task_id |-> 1, entry_next_log_id |-> 1,
     model_outcome |-> "none", llm_text_responses |-> <<>>,
     function_calls |-> <<>>, results |-> <<>>,
     ui_update_messages |-> <<>>, text_response |-> <<>>]

ChatIdle ==
    /\ text_inputs = {}
    /\ next_log_id = 1
    /\ background_info = [u \in UserIds |-> EmptyDict]
    /\ conversation_history = <<>>
    /\ chat = IdleChat

\* The single-call records before any call is made.
IdleBulk ==
    [pc |-> "idle", kind |-> "none", user_id |-> 1, rows |-> <<>>, i |-> 0,
     ids_to_delete |-> {}, session_tasks |-> {}, session_logs |-> {},
     entry_tasks |-> {}, entry_logs |-> {}]

IdleTaskCall ==
    [pc |-> "idle", action |-> "none", user_id |-> 1,
     task_description |-> "none", task_id |-> 0, task_status |-> "none",
     deadline |-> "none", entry_tasks |-> {}, entry_now |-> 0,
     entry_next_task_id |-> 0,
     result |-> [status |-> "none", message |-> "none"], listing |-> <<>>]

IdleProfileCall ==
    [pc |-> "idle", via |-> "none", user_id |-> 1,
     background_update_json |-> "none", replace |-> FALSE,
     prior |-> EmptyDict, result |-> [status |-> "none", message |-> "none"]]

IdlePurgeCall ==
    [pc |-> "idle", user_id |-> 1, result |-> FALSE]

\* The database sessions of concurrent callers.
SessionIds == {1, 2}

IdleSession ==
    [pc |-> "idle", user_id |-> 1, background_update_json |-> "none",
     read |-> EmptyDict, result |-> [status |-> "none", message |-> "none"]]

CallsIdle ==
    /\ bulk = IdleBulk
    /\ task_call = IdleTaskCall
    /\ profile_call = IdleProfileCall
    /\ purge_call = IdlePurgeCall
    /\ profile_sessions = [s \in SessionIds |-> IdleSession]

\* One more application of deep_update: the first to the source document,
\* the next to what the one before returned, with the same overrides.
M_DeepUpdate ==
    /\ merge_pc < 2
    /\ merge_out' = Append(merge_out,
            deep_update(IF merge_out = <<>> THEN merge_source
                        ELSE merge_out[Len(merge_out)],
                        merge_overrides))
    /\ merge_pc' = merge_pc + 1
    /\ UNCHANGED <<merge_source, merge_overrides, merge_overrides_b>>

(***************************************************************************)
(*                     newsletter.py: digest rate limiter                  *)
(***************************************************************************)

\* Bounds of the newsletter model.
NumCalls == 3
MaxDay == 1

\* The number of NewsletterLog rows per day at which a call is skipped.
DailyCap == 1

\* The limit the docstring of send_newsletter_for_user states.
DocumentedDailyLimit == 3

CallIds == 1..NumCalls

CredStates == {"no_password", "incomplete", "complete"}

LlmOutcomes == {"text", "no_text", "raised"}

IdleCall ==
    [pc |-> "idle", user_id |-> 0, todays_log_count |-> 0,
     status |-> "none", llm_invoked |-> FALSE, llm_outcome |-> "none",
     log_saved |-> FALSE, email_attempted |-> FALSE]

\* The rows the rate-limiting query selects: those of the user created
\* within the day.
TodaysLogs(logs, user_id, d) ==
    {r \in logs : r.user_id = user_id /\ r.created_day = d}

\* The rate-limiting query: `.count()` of those rows.
TodaysLogCount(logs, user_id, d) == Cardinality(TodaysLogs(logs, user_id, d))

RateLimitReachedOffByOne(todays_log_count) == todays_log_count > DailyCap

\* `if todays_log_count >= 1`
RateLimitReached(todays_log_count) == todays_log_count >= DailyCap

\* _get_newsletter_content_from_llm: the text of the model, or a fixed
\* placeholder item when the model returns no text or raises.
NewsletterContentFromLlm(outcome) ==
    CASE outcome = "text" -> "llm_text"
      [] outcome = "no_text" -> "<li>No insight generated.</li>"
      [] outcome = "raised" -> "<li>Error generating content.</li>"

SaveNewsletterLogDropped(logs, user_id, content, d, c) == logs

\* _save_newsletter_log: insert one row and commit.
SaveNewsletterLog(logs, user_id, content, d, c) ==
    logs \cup {[id |-> c, user_id |-> user_id, content |-> content,
                  created_day |-> d]}

LogsAfterFailedSendRolledBack(logs, c) ==
    {r \in logs : r.id # c}

\* What a failed delivery leaves in the table: send_newsletter_for_user
\* returns the error without touching the store.
LogsAfterFailedSend(logs, c) == logs

Running(c) == nlCall[c].pc \notin {"idle", "done"}

\* Users are interchangeable: a call is made for a user some earlier call was
\* made for, or for the next user not yet seen.
FreshOrUsed(c) ==
    LET used == {nlCall[d].user_id : d \in {e \in CallIds : e < c}}
    IN  {u \in UserIds : u = 1 \/ (u - 1) \in used}

\* send_newsletter_for_user, up to the rate check and the SMTP_PASSWORD check.
NL_RateCheck(c, u) ==
    /\ nlCall[c].pc = "idle"
    /\ \A d \in CallIds : d < c => nlCall[d].pc # "idle"
    /\ u \in FreshOrUsed(c)
    /\ LET count == TodaysLogCount(newsletter_logs, u, today)
           base == [nlCall[c] EXCEPT !.user_id = u, !.todays_log_count = count]
       IN  nlCall' = [nlCall EXCEPT ![c] =
                IF RateLimitReached(count)
                THEN [base EXCEPT !.pc = "done", !.status = "skipped"]
                ELSE IF creds = "no_password"
                THEN [base EXCEPT !.pc = "done", !.status = "error"]
                ELSE [base EXCEPT !.pc = "checked"]]
    /\ UNCHANGED <<newsletter_logs, today, creds, taskVars, mergeVars, chatVars, callVars>>

\* _generate_html_content: one model invocation, then the row is saved.
NL_GenerateHtmlContent(c, outcome) ==
    /\ nlCall[c].pc = "checked"
    /\ LET content == NewsletterContentFromLlm(outcome)
       IN  /\ newsletter_logs' =
                SaveNewsletterLog(newsletter_logs, nlCall[c].user_id, content, today, c)
           /\ nlCall' = [nlCall EXCEPT ![c] =
                [@ EXCEPT !.pc = "generated", !.llm_invoked = TRUE,
                          !.llm_outcome = outcome,
                          !.log_saved = (newsletter_logs' # newsletter_logs)]]
    /\ UNCHANGED <<today, creds, taskVars, mergeVars, chatVars, callVars>>

\* _send_email and the result of send_newsletter_for_user.
NL_SendEmail(c, smtp_ok) ==
    /\ nlCall[c].pc = "generated"
    /\ LET attempted == (creds = "complete")
           success == attempted /\ smtp_ok
       IN  /\ nlCall' = [nlCall EXCEPT ![c] =
                [@ EXCEPT !.pc = "done", !.email_attempted = attempted,
                          !.status = IF success THEN "success" ELSE "error"]]
           /\ newsletter_logs' =
                IF success THEN newsletter_logs
                ELSE LogsAfterFailedSend(newsletter_logs, c)
    /\ UNCHANGED <<today, creds, taskVars, mergeVars, chatVars, callVars>>

\* Midnight passes.
NL_AdvanceDay ==
    /\ today < MaxDay
    /\ today' = today + 1
    /\ UNCHANGED <<newsletter_logs, creds, nlCall, taskVars, mergeVars, chatVars, callVars>>

\* The store operations are not running in the newsletter specifications.
TasksIdle ==
    /\ tasks = {}
    /\ next_task_id = 1
    /\ now = 1
    /\ ops = 0
    /\ last_result = [status |-> "none", message |-> "none"]

InitNews ==
    /\ newsletter_logs = {}
    /\ today = 0
    /\ creds \in CredStates
    /\ nlCall = [c \in CallIds |-> IdleCall]
    /\ TasksIdle
    /\ MergeIdle
    /\ ChatIdle
    /\ CallsIdle

NextNews ==
    \/ \E c \in CallIds, u \in UserIds : NL_RateCheck(c, u)
    \/ \E c \in CallIds, o \in LlmOutcomes : NL_GenerateHtmlContent(c, o)
    \/ \E c \in CallIds, ok \in BOOLEAN : NL_SendEmail(c, ok)
    \/ NL_AdvanceDay

SpecNews == InitNews /\ [][NextNews]_vars

\* The same calls made one after the other: a call starts only when no other
\* call is between its rate check and its return.
NL_RateCheckSeq(c, u) ==
    /\ \A d \in CallIds : ~Running(d)
    /\ NL_RateCheck(c, u)

NextNewsSeq ==
    \/ \E c \in CallIds, u \in UserIds : NL_RateCheckSeq(c, u)
    \/ \E c \in CallIds, o \in LlmOutcomes : NL_GenerateHtmlContent(c, o)
    \/ \E c \in CallIds, ok \in BOOLEAN : NL_SendEmail(c, ok)
    \/ NL_AdvanceDay

SpecNewsSeq == InitNews /\ [][NextNewsSeq]_vars

(***************************************************************************)
(*                      utils.py: the task operations                      *)
(***************************************************************************)

\* Bounds of the store model.
MaxOps == 2
MaxRows == 2

\* NULL in a nullable column, None for an integer argument that is not
\* supplied; ids and the clock start at 1.
NULL == 0

\* `None`, for an argument that is not supplied.
None == "None"

AllowedStatuses == {"open", "in_progress", "completed"}

\* Values of task_status as a caller may supply it: absent, the three
\* allowed ones and one that Task.validate_status rejects.
StatusArgs == {None} \cup AllowedStatuses \cup {"done"}

DescriptionArgs == {None, "", "write report"}

\* Deadline strings: absent, a full ISO timestamp, a bare date, free text;
\* and a date written without leading zeros.
IsoString == "2025-03-01T10:00:00Z"
BareDate == "2025-03-02"
UnpaddedDate == "2025-3-2"
DeadlineArgs == {None, IsoString, BareDate, "next friday"}

NoDeadline == [date |-> "none", time |-> <<"none", 0>>]

\* Python truthiness of an optional string argument.
Truthy(x) == x # None /\ x # ""

\* dt.datetime.fromisoformat(deadline.replace("Z", "+00:00")), and on
\* ValueError strptime(deadline, "%Y-%m-%d") combined with the current UTC
\* time of day. fromisoformat accepts a date YYYY-MM-DD by itself and
\* returns midnight of that day, so the second parser is reached only by a
\* date fromisoformat rejects, such as one without leading zeros. The time
\* of day of "now" is written <<"now", t>>.
ParseDeadline(deadline, t) ==
    CASE deadline = IsoString ->
            [ok |-> TRUE, value |-> [date |-> "2025-03-01", time |-> <<"10:00", 0>>]]
      [] deadline = BareDate ->
            [ok |-> TRUE, value |-> [date |-> "2025-03-02", time |-> <<"00:00", 0>>]]
      [] deadline = UnpaddedDate ->
            [ok |-> TRUE, value |-> [date |-> "2025-03-02", time |-> <<"now", t>>]]
      [] OTHER -> [ok |-> FALSE, value |-> NoDeadline]

Result(status, message) == [status |-> status, message |-> message]

\* The outcome of one operation: what it returns and what it commits.
Outcome(result, table, next_id) ==
    [result |-> result, tasks |-> table, next_task_id |-> next_id]

TaskOfAnyUser(table, task_id, user_id) ==
    {t \in table : t.id = task_id}

\* The user's row with this id, as `.filter(Task.id == .., Task.user_id == ..)`
\* finds it.
TaskOf(table, task_id, user_id) ==
    {t \in table : t.id = task_id /\ t.user_id = user_id}

\* Task.validate_status
ValidStatus(status) == status \in AllowedStatuses

\* manage_tasks_and_persist_impl, action == "add"
ManageTasksAdd(table, next_id, t, user_id, task_description, deadline) ==
    IF ~Truthy(task_description)
    THEN Outcome(Result("error", "Task description is required to add a task."),
                 table, next_id)
    ELSE IF Truthy(deadline) /\ ~ParseDeadline(deadline, t).ok
    THEN Outcome(Result("error", "Invalid deadline format."), table, next_id)
    ELSE LET new_task ==
                [id |-> next_id, user_id |-> user_id,
                 description |-> task_description, status |-> "open",
                 deadline |-> IF Truthy(deadline)
                              THEN ParseDeadline(deadline, t).value
                              ELSE NoDeadline,
                 created_at |-> t, completed_at |-> NULL]
         IN  Outcome(Result("success", "Task added successfully!"),
                     table \cup {new_task}, next_id + 1)

CompletedAtOnStatusKept(old, task_status, t) == old

KeepPendingOnInvalidDeadline(table, pending) == pending

\* What the store holds after `return {"status": "error", ...}` for an
\* invalid deadline: the return precedes db.commit(), so the changes made to
\* the task object so far are not written.
TableOnInvalidDeadline(table, pending) == table

\* The completed_at that an update to task_status leaves
\* (`if task_status == "completed": ... else: ... = None`).
CompletedAtOnStatus(old, task_status, t) ==
    IF task_status = "completed" THEN t ELSE NULL

\* manage_tasks_and_persist_impl, action == "update"
ManageTasksUpdate(table, next_id, t, user_id, task_id, task_status, task_description, deadline) ==
    IF task_id = NULL
    THEN Outcome(Result("error", "Task ID is required to update a task."),
                 table, next_id)
    ELSE IF TaskOf(table, task_id, user_id) = {}
    THEN Outcome(Result("error", "Task with ID not found."), table, next_id)
    ELSE LET task == CHOOSE x \in TaskOf(table, task_id, user_id) : TRUE
             t1 == IF Truthy(task_status)
                   THEN [task EXCEPT !.status = task_status,
                                     !.completed_at =
                                        CompletedAtOnStatus(@, task_status, t)]
                   ELSE task
             t2 == IF Truthy(deadline)
                   THEN [t1 EXCEPT !.deadline = ParseDeadline(deadline, t).value]
                   ELSE t1
             t3 == IF Truthy(task_description)
                   THEN [t2 EXCEPT !.description = task_description]
                   ELSE t2
         IN  IF Truthy(task_status) /\ ~ValidStatus(task_status)
             THEN \* the validator raises ValueError; nothing is committed
                  Outcome(Result("raised", "ValueError: Invalid status"),
                          table, next_id)
             ELSE IF Truthy(deadline) /\ ~ParseDeadline(deadline, t).ok
             THEN Outcome(Result("error", "Invalid deadline format."),
                          TableOnInvalidDeadline(table, (table \ {task}) \cup {t1}),
                          next_id)
             ELSE Outcome(Result("success", "Okay, I've updated the task."),
                          (table \ {task}) \cup {t3}, next_id)

\* manage_tasks_and_persist_impl: what each action returns and commits. The
\* list action commits nothing and returns no "message"; the rows it returns
\* are ManageTasksList.
ManageTasks(table, next_id, t, user_id, action, task_description, task_id, task_status, deadline) ==
    CASE action = "add" ->
            ManageTasksAdd(table, next_id, t, user_id, task_description, deadline)
      [] action = "update" ->
            ManageTasksUpdate(table, next_id, t, user_id, task_id, task_status,
                              task_description, deadline)
      [] action = "list" ->
            Outcome(Result("success", None), table, next_id)
      [] OTHER ->
            Outcome(Result("error", "Unknown task action"), table, next_id)

StatusOrderOfLoadTasks(status) ==
    IF status \in {"open", "in_progress"} THEN 0 ELSE 1

\* `case(...)` of the list action: in_progress, open, completed, anything else.
StatusOrder(status) ==
    CASE status = "in_progress" -> 0
      [] status = "open" -> 1
      [] status = "completed" -> 2
      [] OTHER -> 3

\* order_by(status_order, Task.created_at.desc()); rows equal in both keys
\* are taken by id.
ListedBefore(x, y) ==
    \/ StatusOrder(x.status) < StatusOrder(y.status)
    \/ /\ StatusOrder(x.status) = StatusOrder(y.status)
       /\ \/ x.created_at > y.created_at
          \/ x.created_at = y.created_at /\ x.id < y.id

RECURSIVE OrderRows(_)
OrderRows(rows) ==
    IF rows = {} THEN <<>>
    ELSE LET first == CHOOSE x \in rows :
                        \A y \in rows \ {x} : ListedBefore(x, y)
         IN  <<first>> \o OrderRows(rows \ {first})

\* manage_tasks_and_persist_impl, action == "list": the user's rows, those of
\* one status if task_status names an allowed one, in listing order.
ManageTasksList(table, user_id, task_status) ==
    OrderRows({x \in table :
                /\ x.user_id = user_id
                /\ (Truthy(task_status) /\ task_status \in AllowedStatuses)
                        => x.status = task_status})

CompletedAtOnBulkKept(old, status, t) == old

\* The completed_at that update_tasks_and_persist leaves on a row.
CompletedAtOnBulk(old, status, t) ==
    IF status = "completed" /\ old = NULL THEN t
    ELSE IF status # "completed" THEN NULL
    ELSE old

\* One iteration of `for task_data in tasks_list` (the row is updated in the
\* session; nothing is committed yet).
BulkApplyRow(table, t, user_id, task_data) ==
    IF task_data.id = NULL \/ TaskOf(table, task_data.id, user_id) = {}
    THEN table
    ELSE LET task == CHOOSE x \in TaskOf(table, task_data.id, user_id) : TRUE
         IN  (table \ {task}) \cup
             {[task EXCEPT !.description = task_data.description,
                           !.status = task_data.status,
                           !.deadline = task_data.deadline,
                           !.completed_at =
                                CompletedAtOnBulk(@, task_data.status, t)]}

RECURSIVE BulkApply(_, _, _, _)
BulkApply(table, t, user_id, tasks_list) ==
    IF tasks_list = <<>> THEN table
    ELSE BulkApply(BulkApplyRow(table, t, user_id, Head(tasks_list)),
                   t, user_id, Tail(tasks_list))

\* Does the loop reach a row whose status the validator rejects?
BulkRaises(table, user_id, tasks_list, ids_to_delete) ==
    \E i \in DOMAIN tasks_list :
        /\ tasks_list[i].id # NULL
        /\ tasks_list[i].id \notin ids_to_delete
        /\ TaskOf(table, tasks_list[i].id, user_id) # {}
        /\ ~ValidStatus(tasks_list[i].status)

\* update_tasks_and_persist
UpdateTasksAndPersist(table, next_id, t, user_id, tasks_list) ==
    LET submitted_task_ids ==
            {tasks_list[i].id : i \in DOMAIN tasks_list} \ {NULL}
        current_task_ids_db == {x.id : x \in {y \in table : y.user_id = user_id}}
        ids_to_delete == current_task_ids_db \ submitted_task_ids
        after_delete ==
            {x \in table : ~(x.id \in ids_to_delete /\ x.user_id = user_id)}
    IN  IF BulkRaises(table, user_id, tasks_list, ids_to_delete)
        THEN Outcome(Result("raised", "ValueError: Invalid status"), table, next_id)
        ELSE Outcome(Result("success", "Tasks updated successfully."),
                     BulkApply(after_delete, t, user_id, tasks_list), next_id)

\* Task ids as a caller may supply them: absent, ids of stored tasks, and an
\* id no task has.
TaskIdArgs == {NULL, 1, 2, 3}

\* The rows the task editor can submit for one id (NULL: a row added in the
\* editor, which carries no id).
BulkRow(id) ==
    [id : {id}, description : {"call Bob"},
     status : AllowedStatuses \cup {None},
     deadline : {NoDeadline, ParseDeadline(IsoString, 0).value}]

RECURSIVE RowsFor(_)
RowsFor(ids) ==
    IF ids = <<>> THEN {<<>>}
    ELSE {<<r>> \o rest : r \in BulkRow(Head(ids)), rest \in RowsFor(Tail(ids))}

\* The submitted lists: at most MaxRows rows, one per id, in ascending order.
TasksLists ==
    LET idseqs == {q \in UNION {[1..n -> TaskIdArgs] : n \in 0..MaxRows} :
                        \A i \in 1..(Len(q) - 1) : q[i] < q[i + 1]}
    IN  UNION {RowsFor(q) : q \in idseqs}

\* Stores the operations start from: the empty one, and one that two adds
\* and one update of earlier sessions have left.
SeedStores ==
    {[tasks |-> {}, next_task_id |-> 1, now |-> 1],
     [tasks |-> {[id |-> 1, user_id |-> 1, description |-> "write report",
                  status |-> "open", deadline |-> NoDeadline,
                  created_at |-> 1, completed_at |-> NULL],
                 [id |-> 2, user_id |-> 2, description |-> "write report",
                  status |-> "completed",
                  deadline |-> ParseDeadline(IsoString, 2).value,
                  created_at |-> 2, completed_at |-> 3]},
      next_task_id |-> 3, now |-> 4]}

\* An operation returned (or raised) `o`: the store holds what it committed.
Commit(o) ==
    /\ tasks' = o.tasks
    /\ next_task_id' = o.next_task_id
    /\ last_result' = o.result
    /\ now' = now + 1
    /\ ops' = ops + 1

\* add_task_and_persist, and manage_tasks called with action add
T_Add(user_id, task_description, deadline) ==
    /\ ops < MaxOps
    /\ Commit(ManageTasks(tasks, next_task_id, now, user_id, "add",
                          task_description, NULL, None, deadline))
    /\ UNCHANGED <<newsVars, mergeVars, chatVars, callVars>>

\* manage_tasks called with action update
T_Update(user_id, task_id, task_status, task_description, deadline) ==
    /\ ops < MaxOps
    /\ Commit(ManageTasks(tasks, next_task_id, now, user_id, "update",
                          task_description, task_id, task_status, deadline))
    /\ UNCHANGED <<newsVars, mergeVars, chatVars, callVars>>

\* manage_tasks called with an action it does not know
T_UnknownAction(user_id, action) ==
    /\ ops < MaxOps
    /\ action \notin {"add", "update", "list"}
    /\ Commit(ManageTasks(tasks, next_task_id, now, user_id, action,
                          None, NULL, None, None))
    /\ UNCHANGED <<newsVars, mergeVars, chatVars, callVars>>

\* update_tasks_and_persist
T_BulkUpdate(user_id, tasks_list) ==
    /\ ops < MaxOps
    /\ Commit(UpdateTasksAndPersist(tasks, next_task_id, now, user_id, tasks_list))
    /\ UNCHANGED <<newsVars, mergeVars, chatVars, callVars>>

NewsIdle ==
    /\ newsletter_logs = {}
    /\ today = 0
    /\ creds = "complete"
    /\ nlCall = [c \in CallIds |-> IdleCall]

InitTasks ==
    /\ \E s \in SeedStores :
        /\ tasks = s.tasks
        /\ next_task_id = s.next_task_id
        /\ now = s.now
    /\ ops = 0
    /\ last_result = Result("none", "none")
    /\ NewsIdle
    /\ MergeIdle
    /\ ChatIdle
    /\ CallsIdle

NextTasks ==
    \/ \E u \in UserIds, d \in DescriptionArgs, dl \in DeadlineArgs :
            T_Add(u, d, dl)
    \/ \E u \in UserIds, id \in TaskIdArgs, st \in StatusArgs,
          d \in {None, "call Bob"}, dl \in DeadlineArgs :
            T_Update(u, id, st, d, dl)
    \/ \E u \in UserIds : T_UnknownAction(u, "delete")
    \/ \E u \in UserIds, l \in TasksLists : T_BulkUpdate(u, l)

SpecTasks == InitTasks /\ [][NextTasks]_vars

(***************************************************************************)
(* utils.py: the log and profile operations and the tool calls the model   *)
(* may request                                                             *)
(***************************************************************************)

\* Most function calls in one model response.
MaxCalls == 2

\* JSON texts the model may pass as background_update_json.
PatchJson == "{\"goals\": [2], \"user_profile\": {\"goals\": 1}}"
ListJson == "[1]"
MalformedJson == "{goals: "
EmptyObjectJson == "{}"
ScalarGoalJson == "{\"goals\": 1}"
ClearGoalsJson == "{\"goals\": []}"
ProfileOnlyJson == "{\"user_profile\": {\"goals\": 1}}"
JsonArgs == {None, PatchJson, ListJson, MalformedJson}

\* json.loads: the value of a JSON text, JSONDecodeError for a text that is
\* not JSON, TypeError for None.
JsonLoads(text) ==
    CASE text = PatchJson ->
            [outcome |-> "value",
             value |-> Dict([k \in Keys |->
                            IF k = "goals" THEN List(<<Scalar(2)>>)
                            ELSE Dict([j \in {"goals"} |-> Scalar(1)])])]
      [] text = ListJson ->
            [outcome |-> "value", value |-> List(<<Scalar(1)>>)]
      [] text = EmptyObjectJson -> [outcome |-> "value", value |-> EmptyDict]
      [] text = ScalarGoalJson ->
            [outcome |-> "value",
             value |-> Dict([k \in {"goals"} |-> Scalar(1)])]
      [] text = ClearGoalsJson ->
            [outcome |-> "value",
             value |-> Dict([k \in {"goals"} |-> EmptyList])]
      [] text = ProfileOnlyJson ->
            [outcome |-> "value",
             value |-> Dict([k \in {"user_profile"} |->
                                Dict([j \in {"goals"} |-> Scalar(1)])])]
      [] text = None -> [outcome |-> "TypeError", value |-> EmptyDict]
      [] OTHER -> [outcome |-> "JSONDecodeError", value |-> EmptyDict]

\* What add_log_entry_and_persist_impl commits: a row whose content is the
\* text as passed (NULL for None) and whose category defaults to "Note". The
\* commit precedes `len(text_input)`.
LogRow(id, user_id, text_input, category_suggestion) ==
    [id |-> id, user_id |-> user_id, content |-> text_input,
     category |-> IF Truthy(category_suggestion) THEN category_suggestion
                  ELSE "Note"]

\* add_log_entry_and_persist_impl: the result, and TypeError from
\* `len(text_input)` when text_input is None.
AddLogEntryResult(text_input) ==
    IF text_input = None
    THEN Result("raised", "TypeError: object of type 'NoneType' has no len()")
    ELSE Result("success", "Log added successfully!")

\* `background_info.content or {}`
ContentOrEmpty(content) ==
    IF content = EmptyList THEN EmptyDict ELSE content

\* update_background_info_and_persist_impl: the result and the content the
\* user's row holds afterwards. Every exception but JSONDecodeError is caught
\* by the generic handler, which rolls back.
UpdateBackgroundInfo(content, background_update_json, replace) ==
    LET loaded == JsonLoads(background_update_json)
        current == ContentOrEmpty(content)
        unexpected == [result |-> Result("error", "An unexpected error occurred."),
                       content |-> content]
        updated(doc) == [result |-> Result("success", "Background information updated."),
                         content |-> doc]
    IN  CASE loaded.outcome = "JSONDecodeError" ->
                [result |-> Result("error", "Invalid JSON format for background update."),
                 content |-> content]
          [] loaded.outcome = "TypeError" -> unexpected
          [] OTHER ->
                IF replace THEN updated(loaded.value)
                ELSE IF ~(IsDict(current) \/ IsList(current)) THEN unexpected
                ELSE IF ~IsDict(loaded.value) THEN unexpected
                ELSE IF IsDict(current) THEN updated(deep_update(current, loaded.value))
                ELSE IF loaded.value = EmptyDict THEN updated(current)
                ELSE unexpected

\* A function_call part: the function's name and `dict(fc.args)`; an
\* argument the model left out reads as None through function_args.get.
FunctionCall(name, action, task_description, task_id, task_status, deadline, text_input, category_suggestion, background_update_json) ==
    [name |-> name, action |-> action, task_description |-> task_description,
     task_id |-> task_id, task_status |-> task_status, deadline |-> deadline,
     text_input |-> text_input, category_suggestion |-> category_suggestion,
     background_update_json |-> background_update_json]

AddLogCall(text_input, category_suggestion) ==
    FunctionCall("add_log_entry", None, None, NULL, None, None,
                 text_input, category_suggestion, None)

UpdateBackgroundCall(background_update_json) ==
    FunctionCall("update_background_info", None, None, NULL, None, None,
                 None, None, background_update_json)

ManageTasksCall(action, task_description, task_id, task_status, deadline) ==
    FunctionCall("manage_tasks", action, task_description, task_id,
                 task_status, deadline, None, None, None)

UnknownCall(name) ==
    FunctionCall(name, None, None, NULL, None, None, None, None, None)

\* The calls a response is drawn from: each tool with well-formed arguments,
\* with each kind of argument the implementation rejects, and a name that
\* is no tool.
ToolCalls ==
    {AddLogCall("finished the report", "Action"),
     AddLogCall("", None),
     AddLogCall(None, None)}
    \cup {UpdateBackgroundCall(j) : j \in JsonArgs}
    \cup {ManageTasksCall("add", "call Bob", NULL, None, BareDate),
          ManageTasksCall("add", None, NULL, None, None),
          ManageTasksCall("add", "call Bob", NULL, None, "next friday"),
          ManageTasksCall("update", None, 1, "completed", None),
          ManageTasksCall("update", None, 1, "in_progress", None),
          ManageTasksCall("update", None, NULL, "completed", None),
          ManageTasksCall("update", None, 3, "open", None),
          ManageTasksCall("update", None, 1, None, "next friday"),
          ManageTasksCall("update", None, 1, "done", None),
          ManageTasksCall("list", None, NULL, None, None),
          ManageTasksCall("list", None, NULL, "completed", None),
          ManageTasksCall("delete", None, 1, None, None),
          UnknownCall("delete_task")}

ToolNames == {"add_log_entry", "update_background_info", "manage_tasks"}

(***************************************************************************)
(* utils.py: get_chat_response                                             *)
(***************************************************************************)

\* Strings are kept as sequences of pieces, so that joining, stripping and
\* looking for a message inside a reply are computed rather than assumed.
Blank == " "

RECURSIVE Join(_, _)
\* separator.join(strings)
Join(strings, separator) ==
    IF strings = <<>> THEN <<>>
    ELSE IF Len(strings) = 1 THEN <<Head(strings)>>
    ELSE <<Head(strings), separator>> \o Join(Tail(strings), separator)

RECURSIVE LStrip(_)
LStrip(pieces) ==
    IF pieces # <<>> /\ Head(pieces) = Blank THEN LStrip(Tail(pieces))
    ELSE pieces

RECURSIVE RStrip(_)
RStrip(pieces) ==
    IF pieces # <<>> /\ pieces[Len(pieces)] = Blank
    THEN RStrip(SubSeq(pieces, 1, Len(pieces) - 1))
    ELSE pieces

\* str.strip()
Strip(pieces) == RStrip(LStrip(pieces))

\* One entry of conversation_history.
NoResponse == [name |-> None, status |-> None, message |-> None, tasks |-> <<>>]

Turn(role, text, function_calls, function_response) ==
    [role |-> role, text |-> text, function_calls |-> function_calls,
     function_response |-> function_response]

UserTurn(user_prompt) == Turn("user", <<user_prompt>>, <<>>, NoResponse)

FunctionTurn(function_response) == Turn("function", <<>>, <<>>, function_response)

\* {"role": "model", "content": model_turn_content_for_history}: the text
\* parts joined by a blank, unstripped, then the function_call parts.
ModelTurn(llm_text_responses, function_calls) ==
    Turn("model", Join(llm_text_responses, Blank), function_calls, NoResponse)

AudioFailedReply == "Sorry, I couldn't understand the audio. Please try again."
NoInputReply == "Error: No input provided."
ModelErrorReply == "Sorry, an error occurred with the AI model"
NoResponseReply == "Sorry, I couldn't generate a response. Please try again."
FallbackReply == "I'm not sure how to respond to that."

UnknownFunctionUiMessageDropped(function_name) == None

\* The branch for a name that is none of the three tools.
UnknownFunctionUiMessage(function_name) ==
    "Error: Unknown function '" \o function_name \o "' called."

\* The header of a non-empty task listing.
ListHeader(status_filter) ==
    IF Truthy(status_filter)
    THEN "These are your '" \o status_filter \o "' tasks:"
    ELSE "These are all your current tasks:"

\* The store as one call of a tool finds it.
Store(table, next_id, logs, log_id, profiles, t) ==
    [tasks |-> table, next_task_id |-> next_id, text_inputs |-> logs,
     next_log_id |-> log_id, background_info |-> profiles, now |-> t]

\* function_response_content as the transcript keeps it.
Response(name, result, listed) ==
    [name |-> name, status |-> result.status, message |-> result.message,
     tasks |-> listed]

ChatReplaceModeOn == TRUE

\* The mode of the profile update get_chat_response makes: it passes no
\* `replace`, so the parameter's default applies.
ChatReplaceMode == FALSE

\* One iteration of `for fc in function_calls_to_process`: the store it
\* leaves, function_response_content and ui_message_for_this_call. A result
\* of status "raised" is an exception that leaves get_chat_response.
ExecuteCall(fc, user_id, st) ==
    CASE fc.name = "add_log_entry" ->
            LET result == AddLogEntryResult(fc.text_input)
            IN  [store |-> [st EXCEPT
                        !.text_inputs = @ \cup {LogRow(st.next_log_id, user_id,
                                                       fc.text_input,
                                                       fc.category_suggestion)},
                        !.next_log_id = @ + 1],
                 response |-> Response(fc.name, result, <<>>),
                 ui_message |-> IF result.status = "success"
                                THEN result.message ELSE None]
      [] fc.name = "update_background_info" ->
            LET o == UpdateBackgroundInfo(st.background_info[user_id],
                                          fc.background_update_json,
                                          ChatReplaceMode)
            IN  [store |-> [st EXCEPT !.background_info[user_id] = o.content],
                 response |-> Response(fc.name, o.result, <<>>),
                 ui_message |-> IF o.result.status = "success"
                                THEN o.result.message ELSE None]
      [] fc.name = "manage_tasks" ->
            LET o == ManageTasks(st.tasks, st.next_task_id, st.now, user_id,
                                 fc.action, fc.task_description, fc.task_id,
                                 fc.task_status, fc.deadline)
                listed == IF fc.action = "list"
                          THEN ManageTasksList(st.tasks, user_id, fc.task_status)
                          ELSE <<>>
            IN  [store |-> [st EXCEPT !.tasks = o.tasks,
                                      !.next_task_id = o.next_task_id],
                 response |-> Response(fc.name, o.result, listed),
                 ui_message |-> IF o.result.status # "success" THEN None
                                ELSE IF listed # <<>> THEN ListHeader(fc.task_status)
                                ELSE o.result.message]
      [] OTHER ->
            [store |-> st,
             response |-> Response(fc.name, Result("error", "Unknown function: " \o fc.name), <<>>),
             ui_message |-> UnknownFunctionUiMessage(fc.name)]

\* "  \n\n".join(ui_update_messages) if ui_update_messages else None
UiUpdateMessage(ui_update_messages) == Join(ui_update_messages, "  \n\n")

FinalTextWithoutMessages(llm_text_responses, ui_update_messages) ==
    Strip(Join(llm_text_responses, Blank))

\* final_text_response_to_user before the fallback: the stripped text, the
\* joined ui messages, or the one followed by the other.
FinalText(llm_text_responses, ui_update_messages) ==
    LET final_text == Strip(Join(llm_text_responses, Blank))
        ui_update_message == UiUpdateMessage(ui_update_messages)
    IN  IF final_text = <<>> /\ ui_update_message # <<>> THEN ui_update_message
        ELSE IF final_text # <<>> /\ ui_update_message # <<>>
        THEN final_text \o <<"\n\n">> \o ui_update_message
        ELSE final_text

\* `if not function_calls_exist and not final_text_response_to_user`
NeedsFallback(function_calls, final_text) ==
    function_calls = <<>> /\ final_text = <<>>

\* What the caller passes in: typed text, a recording, both, or neither. A
\* recording is one the transcription model reads or one it does not.
TypedPrompt == "I finished the report"
Transcript == "remind me to call Bob"
ChatInputs ==
    {[audio |-> "none", user_prompt |-> TypedPrompt],
     [audio |-> "none", user_prompt |-> None],
     [audio |-> "transcribed", user_prompt |-> None],
     [audio |-> "failed", user_prompt |-> None],
     [audio |-> "failed", user_prompt |-> TypedPrompt]}

TranscribeAudioAlwaysText(audio) == Transcript

\* transcribe_audio: the text of the recording, or None when the response
\* has no candidate or no parts or the call raised.
TranscribeAudio(audio) ==
    IF audio = "transcribed" THEN Transcript ELSE None

\* The text parts of a response: none, one sentence, one blank string.
TextResponses == {<<>>, <<"Sure, done.">>, <<Blank>>}

\* Up to MaxCalls function_call parts, in the order the model wrote them.
CallLists == UNION {[1..n -> ToolCalls] : n \in 0..MaxCalls}

ModelFailures == {"raised", "no_candidates", "no_parts"}

\* Lines 664-696: transcription, the check for a prompt, and the append of
\* the user turn to the caller's conversation_history.
Chat_Begin(user_id, input) ==
    /\ chat.pc = "idle"
    /\ LET transcribed_text == TranscribeAudio(input.audio)
           user_prompt == IF input.audio # "none" /\ Truthy(transcribed_text)
                          THEN transcribed_text
                          ELSE input.user_prompt
           entered == [chat EXCEPT
                        !.user_id = user_id,
                        !.audio = input.audio,
                        !.entry_history = conversation_history,
                        !.entry_tasks = tasks,
                        !.entry_text_inputs = text_inputs,
                        !.entry_background_info = background_info[user_id],
                        !.entry_next_task_id = next_task_id,
                        !.entry_next_log_id = next_log_id]
       IN  IF input.audio # "none" /\ ~Truthy(transcribed_text)
           THEN /\ chat' = [entered EXCEPT !.pc = "returned",
                                           !.text_response = <<AudioFailedReply>>]
                /\ UNCHANGED conversation_history
           ELSE IF ~Truthy(user_prompt)
           THEN /\ chat' = [entered EXCEPT !.pc = "returned",
                                           !.text_response = <<NoInputReply>>]
                /\ UNCHANGED conversation_history
           ELSE /\ chat' = [entered EXCEPT !.pc = "awaiting_model"]
                /\ conversation_history' =
                        Append(conversation_history, UserTurn(user_prompt))
    /\ UNCHANGED <<text_inputs, next_log_id, background_info>>
    /\ UNCHANGED <<newsVars, taskVars, mergeVars, callVars>>

\* Lines 739-754: generate_content raised, or the response has no candidate,
\* or its candidate has no parts. Each returns an apology at once.
Chat_ModelFails(failure) ==
    /\ chat.pc = "awaiting_model"
    /\ chat' = [chat EXCEPT
                    !.pc = "returned",
                    !.model_outcome = failure,
                    !.text_response = IF failure = "raised"
                                      THEN <<ModelErrorReply>>
                                      ELSE <<NoResponseReply>>]
    /\ UNCHANGED <<text_inputs, next_log_id, background_info, conversation_history>>
    /\ UNCHANGED <<newsVars, taskVars, mergeVars, callVars>>

\* Lines 757-775: the first pass over candidate.content.parts.
Chat_ModelResponds ==
    /\ chat.pc = "awaiting_model"
    /\ \E llm_text_responses \in TextResponses, function_calls \in CallLists :
            chat' = [chat EXCEPT
                        !.pc = "tools",
                        !.model_outcome = "content",
                        !.llm_text_responses = llm_text_responses,
                        !.function_calls = function_calls]
    /\ UNCHANGED <<text_inputs, next_log_id, background_info, conversation_history>>
    /\ UNCHANGED <<newsVars, taskVars, mergeVars, callVars>>

\* Lines 780-858: the next function call is executed. Its result is appended
\* to the transcript as a function turn, unless the tool raised, which ends
\* get_chat_response with what the tool had committed.
Chat_ExecuteCall ==
    /\ chat.pc = "tools"
    /\ Len(chat.results) < Len(chat.function_calls)
    /\ LET fc == chat.function_calls[Len(chat.results) + 1]
           x == ExecuteCall(fc, chat.user_id,
                            Store(tasks, next_task_id, text_inputs,
                                  next_log_id, background_info, now))
           raised == x.response.status = "raised"
       IN  /\ tasks' = x.store.tasks
           /\ next_task_id' = x.store.next_task_id
           /\ text_inputs' = x.store.text_inputs
           /\ next_log_id' = x.store.next_log_id
           /\ background_info' = x.store.background_info
           /\ now' = now + 1
           /\ IF raised
              THEN /\ chat' = [chat EXCEPT !.pc = "raised"]
                   /\ UNCHANGED conversation_history
              ELSE /\ chat' = [chat EXCEPT
                            !.results = Append(@, x.response),
                            !.ui_update_messages =
                                IF Truthy(x.ui_message)
                                THEN Append(@, x.ui_message) ELSE @]
                   /\ conversation_history' =
                            Append(conversation_history, FunctionTurn(x.response))
    /\ UNCHANGED <<ops, last_result>>
    /\ UNCHANGED <<newsVars, mergeVars, callVars>>

\* Lines 861-891: the reply is assembled, the model turn is appended, and a
\* response without calls and without text gets the fallback sentence as a
\* reply and as a further model turn.
Chat_Compose ==
    /\ chat.pc = "tools"
    /\ Len(chat.results) = Len(chat.function_calls)
    /\ LET final_text == FinalText(chat.llm_text_responses, chat.ui_update_messages)
           fallback == NeedsFallback(chat.function_calls, final_text)
           with_model_turn ==
                IF chat.llm_text_responses # <<>> \/ chat.function_calls # <<>>
                THEN Append(conversation_history,
                            ModelTurn(chat.llm_text_responses, chat.function_calls))
                ELSE conversation_history
       IN  /\ chat' = [chat EXCEPT
                        !.pc = "returned",
                        !.text_response = IF fallback THEN <<FallbackReply>>
                                          ELSE final_text]
           /\ conversation_history' =
                IF fallback
                THEN Append(with_model_turn, ModelTurn(<<FallbackReply>>, <<>>))
                ELSE with_model_turn
    /\ UNCHANGED <<text_inputs, next_log_id, background_info>>
    /\ UNCHANGED <<newsVars, taskVars, mergeVars, callVars>>

\* The stores and transcripts a call starts from: a new account, and an
\* account with tasks, a log entry, a profile and one exchange behind it.
ChatSeeds ==
    {[store |-> s,
      text_inputs |-> IF s.tasks = {} THEN {}
                      ELSE {LogRow(1, 1, "slept well", None)},
      next_log_id |-> IF s.tasks = {} THEN 1 ELSE 2,
      background_info |-> [u \in UserIds |->
                            IF s.tasks # {} /\ u = 1
                            THEN Dict([k \in {"goals"} |-> List(<<Scalar(1)>>)])
                            ELSE EmptyDict],
      conversation_history |-> IF s.tasks = {} THEN <<>>
                               ELSE <<UserTurn("hello"),
                                      ModelTurn(<<"Hi!">>, <<>>)>>]
     : s \in SeedStores}

InitChat ==
    /\ \E seed \in ChatSeeds :
        /\ tasks = seed.store.tasks
        /\ next_task_id = seed.store.next_task_id
        /\ now = seed.store.now
        /\ text_inputs = seed.text_inputs
        /\ next_log_id = seed.next_log_id
        /\ background_info = seed.background_info
        /\ conversation_history = seed.conversation_history
    /\ ops = 0
    /\ last_result = Result("none", "none")
    /\ chat = IdleChat
    /\ NewsIdle
    /\ MergeIdle
    /\ CallsIdle

NextChat ==
    \/ \E user_id \in UserIds, input \in ChatInputs : Chat_Begin(user_id, input)
    \/ \E failure \in ModelFailures : Chat_ModelFails(failure)
    \/ Chat_ModelResponds
    \/ Chat_ExecuteCall
    \/ Chat_Compose

SpecChat == InitChat /\ [][NextChat]_vars

(***************************************************************************)
(* utils.py: update_tasks_and_persist and update_input_log_and_persist,    *)
(* statement by statement                                                  *)
(***************************************************************************)

\* {row['id'] for row in rows if 'id' in row}
SubmittedIds(rows) == {rows[i].id : i \in DOMAIN rows} \ {NULL}

\* The ids of the user's stored rows.
CurrentIds(table, user_id) == {x.id : x \in {y \in table : y.user_id = user_id}}

DeleteNothing(table, ids, user_id) == table

\* query.filter(id.in_(ids_to_delete), user_id == user.id).delete(...)
DeleteRows(table, ids, user_id) ==
    {x \in table : ~(x.id \in ids /\ x.user_id = user_id)}

StoreAfterDeleteCommitted(committed, session) == session

\* What other sessions see once the DELETE has run: the statement is part
\* of the open transaction and nothing is committed with it.
StoreAfterDelete(committed, session) == committed

\* One iteration of `for log_data in log_list`.
LogApplyRow(table, user_id, log_data) ==
    LET found == {x \in table : x.id = log_data.id /\ x.user_id = user_id}
    IN  IF log_data.id = NULL \/ found = {} THEN table
        ELSE LET log == CHOOSE x \in found : TRUE
             IN  (table \ {log}) \cup
                 {[log EXCEPT !.content = log_data.content,
                              !.category = log_data.category]}

\* Does `task.status = task_data['status']` raise for this row?
RowRaises(table, user_id, task_data) ==
    /\ task_data.id # NULL
    /\ TaskOf(table, task_data.id, user_id) # {}
    /\ ~ValidStatus(task_data.status)

\* Ids in submitted rows: none, the ids of the stored rows, of both users.
BulkIdArgs == {NULL, 1, 2, 3, 4}

\* The rows of the log editor for one id.
LogEditRow(id) ==
    [id : {id}, content : {"edited"}, category : {"Note", "Idea"}]

RECURSIVE LogRowsFor(_)
LogRowsFor(ids) ==
    IF ids = <<>> THEN {<<>>}
    ELSE {<<r>> \o rest : r \in LogEditRow(Head(ids)), rest \in LogRowsFor(Tail(ids))}

\* Id sequences of submitted lists: at most MaxRows ids, ascending.
BulkIdSeqs ==
    {q \in UNION {[1..n -> BulkIdArgs] : n \in 0..MaxRows} :
        \A i \in 1..(Len(q) - 1) : q[i] < q[i + 1]}

BulkTasksLists == UNION {RowsFor(q) : q \in BulkIdSeqs}

BulkLogLists == UNION {LogRowsFor(q) : q \in BulkIdSeqs}

\* Lines 446-450 and 472-476: the session is opened and the delete set is
\* computed from the submitted ids and the user's stored ids.
B_Begin(kind, user_id, rows) ==
    /\ bulk.pc = "idle"
    /\ bulk' = [pc |-> "delete", kind |-> kind, user_id |-> user_id,
                rows |-> rows, i |-> 0,
                ids_to_delete |->
                    CurrentIds(IF kind = "tasks" THEN tasks ELSE text_inputs,
                               user_id) \ SubmittedIds(rows),
                session_tasks |-> tasks, session_logs |-> text_inputs,
                entry_tasks |-> tasks, entry_logs |-> text_inputs]
    /\ UNCHANGED <<task_call, profile_call, purge_call, profile_sessions>>
    /\ UNCHANGED <<newsVars, taskVars, mergeVars, chatVars>>

\* Lines 451-452 and 477-478: `if ids_to_delete: ... .delete(...)`
B_Delete ==
    /\ bulk.pc = "delete"
    /\ LET after_tasks == IF bulk.kind = "tasks" /\ bulk.ids_to_delete # {}
                          THEN DeleteRows(bulk.session_tasks, bulk.ids_to_delete,
                                          bulk.user_id)
                          ELSE bulk.session_tasks
           after_logs == IF bulk.kind = "logs" /\ bulk.ids_to_delete # {}
                         THEN DeleteRows(bulk.session_logs, bulk.ids_to_delete,
                                         bulk.user_id)
                         ELSE bulk.session_logs
       IN  /\ bulk' = [bulk EXCEPT !.pc = "update",
                                   !.session_tasks = after_tasks,
                                   !.session_logs = after_logs]
           /\ tasks' = StoreAfterDelete(tasks, after_tasks)
           /\ text_inputs' = StoreAfterDelete(text_inputs, after_logs)
    /\ UNCHANGED <<next_task_id, now, ops, last_result>>
    /\ UNCHANGED <<next_log_id, background_info, conversation_history, chat>>
    /\ UNCHANGED <<task_call, profile_call, purge_call, profile_sessions>>
    /\ UNCHANGED <<newsVars, mergeVars>>

\* Lines 454-464 and 480-485: the next submitted row is applied to the row
\* the session finds for its id; an unacceptable status raises ValueError
\* out of the function, before the commit.
B_ApplyRow ==
    /\ bulk.pc = "update"
    /\ bulk.i < Len(bulk.rows)
    /\ LET row == bulk.rows[bulk.i + 1]
       IN  IF bulk.kind = "tasks" /\ RowRaises(bulk.session_tasks, bulk.user_id, row)
           THEN bulk' = [bulk EXCEPT !.pc = "raised"]
           ELSE bulk' = [bulk EXCEPT
                    !.i = @ + 1,
                    !.session_tasks =
                        IF bulk.kind = "tasks"
                        THEN BulkApplyRow(@, now, bulk.user_id, row) ELSE @,
                    !.session_logs =
                        IF bulk.kind = "logs"
                        THEN LogApplyRow(@, bulk.user_id, row) ELSE @]
    /\ UNCHANGED <<task_call, profile_call, purge_call, profile_sessions>>
    /\ UNCHANGED <<newsVars, taskVars, mergeVars, chatVars>>

\* Lines 466 and 487: db.commit()
B_Commit ==
    /\ bulk.pc = "update"
    /\ bulk.i = Len(bulk.rows)
    /\ bulk' = [bulk EXCEPT !.pc = "committed"]
    /\ tasks' = bulk.session_tasks
    /\ text_inputs' = bulk.session_logs
    /\ now' = now + 1
    /\ UNCHANGED <<next_task_id, ops, last_result>>
    /\ UNCHANGED <<next_log_id, background_info, conversation_history, chat>>
    /\ UNCHANGED <<task_call, profile_call, purge_call, profile_sessions>>
    /\ UNCHANGED <<newsVars, mergeVars>>

\* The process stops, or the connection is lost, between two statements:
\* the open transaction is rolled back.
B_Interrupt ==
    /\ bulk.pc \in {"delete", "update"}
    /\ bulk' = [bulk EXCEPT !.pc = "interrupted"]
    /\ UNCHANGED <<task_call, profile_call, purge_call, profile_sessions>>
    /\ UNCHANGED <<newsVars, taskVars, mergeVars, chatVars>>

\* Stores a bulk replace starts from: a new account, and two accounts with
\* tasks and log entries.
BulkSeeds ==
    {[tasks |-> {}, text_inputs |-> {}, now |-> 1],
     [tasks |-> {[id |-> n, user_id |-> IF n = 4 THEN 2 ELSE 1,
                  description |-> "write report",
                  status |-> IF n = 2 THEN "completed" ELSE "open",
                  deadline |-> NoDeadline, created_at |-> n,
                  completed_at |-> IF n = 2 THEN 5 ELSE NULL] : n \in 1..4},
      text_inputs |-> {LogRow(n, IF n = 4 THEN 2 ELSE 1, "slept well", None)
                        : n \in 1..4},
      now |-> 6]}

InitBulk ==
    /\ \E seed \in BulkSeeds :
        /\ tasks = seed.tasks
        /\ text_inputs = seed.text_inputs
        /\ now = seed.now
        /\ next_task_id = Cardinality(seed.tasks) + 1
        /\ next_log_id = Cardinality(seed.text_inputs) + 1
    /\ ops = 0
    /\ last_result = Result("none", "none")
    /\ background_info = [u \in UserIds |-> EmptyDict]
    /\ conversation_history = <<>>
    /\ chat = IdleChat
    /\ NewsIdle
    /\ MergeIdle
    /\ CallsIdle

NextBulk ==
    \/ /\ bulk.pc = "idle"
       /\ \E user_id \in UserIds, rows \in BulkTasksLists :
                B_Begin("tasks", user_id, rows)
    \/ /\ bulk.pc = "idle"
       /\ \E user_id \in UserIds, rows \in BulkLogLists :
                B_Begin("logs", user_id, rows)
    \/ B_Delete
    \/ B_ApplyRow
    \/ B_Commit
    \/ B_Interrupt

SpecBulk == InitBulk /\ [][NextBulk]_vars

(***************************************************************************)
(* utils.py: update_background_info_and_persist, called from the profile   *)
(* editor and from get_chat_response                                       *)
(***************************************************************************)

\* The texts a profile update is called with: those of the tool calls, and
\* objects that are empty, hold a scalar, or hold an empty list.
ProfileJsonTexts == JsonArgs \cup {EmptyObjectJson, ScalarGoalJson, ClearGoalsJson}

\* update_background_info_and_persist(background_update_json, user, replace),
\* as the profile editor calls it with replace=True and any other caller
\* with either mode.
P_Update(user_id, background_update_json, replace) ==
    /\ ops < MaxOps
    /\ LET o == UpdateBackgroundInfo(background_info[user_id],
                                     background_update_json, replace)
       IN  /\ background_info' = [background_info EXCEPT ![user_id] = o.content]
           /\ profile_call' = [pc |-> "done", via |-> "app", user_id |-> user_id,
                               background_update_json |-> background_update_json,
                               replace |-> replace,
                               prior |-> background_info[user_id],
                               result |-> o.result]
    /\ ops' = ops + 1
    /\ UNCHANGED <<tasks, next_task_id, now, last_result>>
    /\ UNCHANGED <<text_inputs, next_log_id, conversation_history, chat>>
    /\ UNCHANGED <<bulk, task_call, purge_call, profile_sessions>>
    /\ UNCHANGED <<newsVars, mergeVars>>

\* The update_background_info branch of get_chat_response, which passes the
\* JSON text and the user and no mode.
P_ChatUpdate(user_id, background_update_json) ==
    /\ ops < MaxOps
    /\ LET x == ExecuteCall(UpdateBackgroundCall(background_update_json), user_id,
                            Store(tasks, next_task_id, text_inputs, next_log_id,
                                  background_info, now))
       IN  /\ background_info' = x.store.background_info
           /\ profile_call' = [pc |-> "done", via |-> "chat", user_id |-> user_id,
                               background_update_json |-> background_update_json,
                               replace |-> ChatReplaceMode,
                               prior |-> background_info[user_id],
                               result |-> Result(x.response.status, x.response.message)]
    /\ ops' = ops + 1
    /\ UNCHANGED <<tasks, next_task_id, now, last_result>>
    /\ UNCHANGED <<text_inputs, next_log_id, conversation_history, chat>>
    /\ UNCHANGED <<bulk, task_call, purge_call, profile_sessions>>
    /\ UNCHANGED <<newsVars, mergeVars>>

\* Profiles stored before the first call: none, and one with a list and a
\* nested dict.
ProfileSeeds ==
    {EmptyDict,
     Dict([k \in Keys |-> IF k = "goals" THEN List(<<Scalar(1)>>)
                          ELSE Dict([j \in {"user_profile"} |-> Scalar(2)])])}

InitProfile ==
    /\ background_info \in [UserIds -> ProfileSeeds]
    /\ text_inputs = {}
    /\ next_log_id = 1
    /\ conversation_history = <<>>
    /\ chat = IdleChat
    /\ TasksIdle
    /\ NewsIdle
    /\ MergeIdle
    /\ CallsIdle

NextProfile ==
    \/ \E user_id \in UserIds, text \in ProfileJsonTexts, replace \in BOOLEAN :
            P_Update(user_id, text, replace)
    \/ \E user_id \in UserIds, text \in ProfileJsonTexts :
            P_ChatUpdate(user_id, text)

SpecProfile == InitProfile /\ [][NextProfile]_vars

(***************************************************************************)
(* utils.py: update_background_info_and_persist_impl called in two         *)
(* database sessions at once                                               *)
(***************************************************************************)

\* The texts the concurrent callers pass: objects over one key or both, and
\* a text that is not JSON.
SessionJsonTexts ==
    {ScalarGoalJson, ClearGoalsJson, ProfileOnlyJson, PatchJson, MalformedJson}

\* Lines 394-402: get_db opens a session of its own, json.loads parses the
\* text, and the query reads the user's latest row into the session. A text
\* that is not JSON ends the call here.
PS_Read(s, user_id, background_update_json) ==
    /\ profile_sessions[s].pc = "idle"
    /\ LET loaded == JsonLoads(background_update_json)
           entered == [profile_sessions[s] EXCEPT
                        !.user_id = user_id,
                        !.background_update_json = background_update_json]
       IN  profile_sessions' = [profile_sessions EXCEPT ![s] =
                IF loaded.outcome # "value"
                THEN [entered EXCEPT
                        !.pc = "done",
                        !.result = UpdateBackgroundInfo(background_info[user_id],
                                        background_update_json, FALSE).result]
                ELSE [entered EXCEPT !.pc = "read",
                                     !.read = background_info[user_id]]]
    /\ UNCHANGED <<bulk, task_call, profile_call, purge_call>>
    /\ UNCHANGED <<newsVars, taskVars, mergeVars, chatVars>>

\* Lines 404-419: the merge is computed from the content the session read,
\* assigned to the row as a whole and committed; the row then holds what
\* the session that committed last has written.
PS_Commit(s) ==
    /\ profile_sessions[s].pc = "read"
    /\ LET session == profile_sessions[s]
           o == UpdateBackgroundInfo(session.read, session.background_update_json,
                                     FALSE)
       IN  /\ background_info' =
                IF o.result.status = "success"
                THEN [background_info EXCEPT ![session.user_id] = o.content]
                ELSE background_info
           /\ profile_sessions' = [profile_sessions EXCEPT ![s] =
                [session EXCEPT !.pc = "done", !.result = o.result]]
    /\ UNCHANGED <<text_inputs, next_log_id, conversation_history, chat>>
    /\ UNCHANGED <<bulk, task_call, profile_call, purge_call>>
    /\ UNCHANGED <<newsVars, taskVars, mergeVars>>

InitSessions ==
    /\ background_info \in [UserIds -> ProfileSeeds]
    /\ text_inputs = {}
    /\ next_log_id = 1
    /\ conversation_history = <<>>
    /\ chat = IdleChat
    /\ TasksIdle
    /\ NewsIdle
    /\ MergeIdle
    /\ CallsIdle

NextSessions ==
    \/ \E s \in SessionIds, user_id \in UserIds, text \in SessionJsonTexts :
            PS_Read(s, user_id, text)
    \/ \E s \in SessionIds : PS_Commit(s)

SpecSessions == InitSessions /\ [][NextSessions]_vars

(***************************************************************************)
(* utils.py: one call of manage_tasks_and_persist_impl, with its arguments *)
(* and the store it found                                                  *)
(***************************************************************************)

CallActions == {"add", "update", "list", "delete"}

CallDeadlineArgs == DeadlineArgs \cup {UnpaddedDate}

\* manage_tasks_and_persist_impl(action, user, task_description, task_id,
\* task_status, deadline)
TC_ManageTasks(user_id, action, task_description, task_id, task_status, deadline) ==
    /\ task_call.pc = "idle"
    /\ LET o == ManageTasks(tasks, next_task_id, now, user_id, action,
                            task_description, task_id, task_status, deadline)
       IN  /\ tasks' = o.tasks
           /\ next_task_id' = o.next_task_id
           /\ task_call' =
                [pc |-> "done", action |-> action, user_id |-> user_id,
                 task_description |-> task_description, task_id |-> task_id,
                 task_status |-> task_status, deadline |-> deadline,
                 entry_tasks |-> tasks, entry_now |-> now,
                 entry_next_task_id |-> next_task_id,
                 result |-> o.result,
                 listing |-> IF action = "list"
                             THEN ManageTasksList(tasks, user_id, task_status)
                             ELSE <<>>]
    /\ now' = now + 1
    /\ UNCHANGED <<ops, last_result>>
    /\ UNCHANGED <<bulk, profile_call, purge_call, profile_sessions>>
    /\ UNCHANGED <<newsVars, mergeVars, chatVars>>

\* Stores a call finds: those of the task operations, and one where a user
\* has two tasks of each status, created at different times.
CallSeedStores ==
    SeedStores \cup
    {[tasks |-> {[id |-> n, user_id |-> IF n = 7 THEN 2 ELSE 1,
                  description |-> "buy milk",
                  status |-> CASE n \in {1, 5} -> "open"
                               [] n \in {2, 4} -> "completed"
                               [] OTHER -> "in_progress",
                  deadline |-> NoDeadline, created_at |-> n,
                  completed_at |-> IF n \in {2, 4} THEN 8 ELSE NULL] : n \in 1..7},
      next_task_id |-> 8, now |-> 9]}

InitTaskCall ==
    /\ \E s \in CallSeedStores :
        /\ tasks = s.tasks
        /\ next_task_id = s.next_task_id
        /\ now = s.now
    /\ ops = 0
    /\ last_result = Result("none", "none")
    /\ NewsIdle
    /\ MergeIdle
    /\ ChatIdle
    /\ CallsIdle

NextTaskCall ==
    /\ task_call.pc = "idle"
    /\ \E user_id \in UserIds, action \in CallActions,
          task_description \in DescriptionArgs, task_id \in TaskIdArgs,
          task_status \in StatusArgs, deadline \in CallDeadlineArgs :
            TC_ManageTasks(user_id, action, task_description, task_id,
                           task_status, deadline)

SpecTaskCall == InitTaskCall /\ [][NextTaskCall]_vars

(***************************************************************************)
(* utils.py: purge_user_data, and every operation that writes to the store *)
(* run for one user while another user has rows of every kind              *)
(***************************************************************************)

\* query.filter(user_id == user_id).delete(synchronize_session=False)
PurgeRows(table, user_id) == {x \in table : x.user_id # user_id}

PurgeOutcomes == {"committed", "raised"}

\* purge_user_data(user_id): the four deletes and the commit, or an exception
\* before the commit, which rolls back and returns False. A user without a
\* background_info row reads as one whose content is the empty dict. The
\* call is made while no bulk replace holds an open session.
Pg_Purge(user_id, outcome) ==
    /\ purge_call.pc = "idle"
    /\ bulk.pc \notin {"delete", "update"}
    /\ IF outcome = "committed"
       THEN /\ newsletter_logs' = PurgeRows(newsletter_logs, user_id)
            /\ tasks' = PurgeRows(tasks, user_id)
            /\ background_info' = [background_info EXCEPT ![user_id] = EmptyDict]
            /\ text_inputs' = PurgeRows(text_inputs, user_id)
       ELSE UNCHANGED <<newsletter_logs, tasks, background_info, text_inputs>>
    /\ purge_call' = [pc |-> "done", user_id |-> user_id,
                      result |-> (outcome = "committed")]
    /\ UNCHANGED <<today, creds, nlCall>>
    /\ UNCHANGED <<next_task_id, now, ops, last_result>>
    /\ UNCHANGED <<next_log_id, conversation_history, chat>>
    /\ UNCHANGED <<bulk, task_call, profile_call, profile_sessions>>
    /\ UNCHANGED mergeVars

\* No chat turn, bulk replace, profile update or call of manage_tasks has
\* started.
NoneStarted ==
    /\ chat.pc = "idle"
    /\ bulk.pc = "idle"
    /\ task_call.pc = "idle"
    /\ profile_call.pc = "idle"

\* Two accounts, each with tasks, log entries, a profile and a digest.
InitOwner ==
    /\ \E seed \in {b \in BulkSeeds : b.tasks # {}} :
        /\ tasks = seed.tasks
        /\ text_inputs = seed.text_inputs
        /\ now = seed.now
        /\ next_task_id = Cardinality(seed.tasks) + 1
        /\ next_log_id = Cardinality(seed.text_inputs) + 1
    /\ background_info = [u \in UserIds |-> Dict([k \in {"goals"} |-> List(<<Scalar(u)>>)])]
    /\ newsletter_logs = {[id |-> u, user_id |-> u, content |-> "llm_text",
                           created_day |-> 0] : u \in UserIds}
    /\ today = 0
    /\ creds = "complete"
    /\ nlCall = [c \in CallIds |-> IdleCall]
    /\ ops = 0
    /\ last_result = Result("none", "none")
    /\ conversation_history = <<>>
    /\ chat = IdleChat
    /\ MergeIdle
    /\ CallsIdle

\* One operation for one user, and purges before, during or after it.
NextOwner ==
    \/ /\ NoneStarted
       /\ \E user_id \in UserIds, input \in ChatInputs : Chat_Begin(user_id, input)
    \/ \E failure \in ModelFailures : Chat_ModelFails(failure)
    \/ Chat_ModelResponds
    \/ Chat_ExecuteCall
    \/ Chat_Compose
    \/ /\ NoneStarted
       /\ \E user_id \in UserIds, rows \in BulkTasksLists :
                B_Begin("tasks", user_id, rows)
    \/ /\ NoneStarted
       /\ \E user_id \in UserIds, rows \in BulkLogLists :
                B_Begin("logs", user_id, rows)
    \/ B_Delete
    \/ B_ApplyRow
    \/ B_Commit
    \/ B_Interrupt
    \/ /\ NoneStarted
       /\ \E user_id \in UserIds, text \in ProfileJsonTexts, replace \in BOOLEAN :
                P_Update(user_id, text, replace)
    \/ /\ NoneStarted
       /\ \E user_id \in UserIds, action \in CallActions,
             task_description \in DescriptionArgs, task_id \in BulkIdArgs,
             task_status \in StatusArgs, deadline \in DeadlineArgs :
                TC_ManageTasks(user_id, action, task_description, task_id,
                               task_status, deadline)
    \/ \E user_id \in UserIds, outcome \in PurgeOutcomes : Pg_Purge(user_id, outcome)

SpecOwner == InitOwner /\ [][NextOwner]_vars

(***************************************************************************)
(*                  deep_update applied to bounded documents               *)
(***************************************************************************)

InitMerge ==
    /\ merge_source \in Documents
    /\ merge_overrides \in Documents
    /\ merge_overrides_b = EmptyDict
    /\ merge_out = <<>>
    /\ merge_pc = 0
    /\ NewsIdle
    /\ TasksIdle
    /\ ChatIdle
    /\ CallsIdle

NextMerge == M_DeepUpdate /\ UNCHANGED <<newsVars, taskVars, chatVars, callVars>>

SpecMerge == InitMerge /\ [][NextMerge]_vars

\* Two patches merged into one document in both orders: first overrides
\* then overrides_b, starting from source, then overrides_b then overrides,
\* starting from source again. merge_out keeps the four documents returned.
M_MergeInOrder ==
    /\ merge_pc < 4
    /\ LET first == IF merge_pc < 2 THEN merge_overrides ELSE merge_overrides_b
           second == IF merge_pc < 2 THEN merge_overrides_b ELSE merge_overrides
       IN  merge_out' = Append(merge_out,
                IF merge_pc \in {0, 2} THEN deep_update(merge_source, first)
                ELSE deep_update(merge_out[Len(merge_out)], second))
    /\ merge_pc' = merge_pc + 1
    /\ UNCHANGED <<merge_source, merge_overrides, merge_overrides_b>>

\* Stored documents the two patches are merged into: each key absent or
\* holding a scalar, a list or a nested dict.
OrderBases ==
    DictsOver({Scalar(2), List(<<Scalar(1)>>),
               Dict([k \in {"user_profile"} |-> List(<<Scalar(1)>>)])})

InitMergeOrder ==
    /\ merge_source \in OrderBases
    /\ merge_overrides \in Documents
    /\ merge_overrides_b \in Documents
    /\ DOMAIN merge_overrides.fields \cap DOMAIN merge_overrides_b.fields = {}
    /\ merge_out = <<>>
    /\ merge_pc = 0
    /\ NewsIdle
    /\ TasksIdle
    /\ ChatIdle
    /\ CallsIdle

NextMergeOrder == M_MergeInOrder /\ UNCHANGED <<newsVars, taskVars, chatVars, callVars>>

SpecMergeOrder == InitMergeOrder /\ [][NextMergeOrder]_vars

(***************************************************************************)
(*                         Claims about deep_update                        *)
(***************************************************************************)

\* C10: deep_update is idempotent: merging the same overrides into the
\* result of a merge returns that result again.
C10_DeepUpdateIdempotent ==
    merge_pc = 2 => merge_out[2] = merge_out[1]

\* A second merge of overrides that appended to a stored list and recursed
\* into a nested dict.
C10_Witness ==
    /\ merge_pc = 2
    /\ merge_out[1] # merge_source
    /\ \E k \in DOMAIN merge_overrides.fields :
            /\ NonEmptyList(merge_overrides.fields[k])
            /\ k \in DOMAIN merge_source.fields
            /\ NonEmptyList(merge_source.fields[k])
            /\ merge_out[1].fields[k] # merge_source.fields[k]
            /\ merge_out[1].fields[k] # merge_overrides.fields[k]
    /\ \E k \in DOMAIN merge_overrides.fields :
            NonEmptyDict(merge_overrides.fields[k])

\* How often x occurs in a sequence.
Occurrences(items, x) == Cardinality({i \in DOMAIN items : items[i] = x})

\* The patch elements from position i on that base does not hold, each at
\* its first appearance only.
RECURSIVE NewInOrder(_, _, _)
NewInOrder(base, patch, i) ==
    IF i > Len(patch) THEN <<>>
    ELSE (IF /\ ~Contains(base, patch[i])
             /\ \A j \in 1..(i - 1) : patch[j] # patch[i]
          THEN <<patch[i]>> ELSE <<>>)
         \o NewInOrder(base, patch, i + 1)

\* C11: at every key where source and overrides both hold a list, the merged
\* list is the source list followed by the override elements not yet in it,
\* each once, in order of first appearance; and an element that occurs once
\* in the source list occurs at most once after any number of merges.
C11_ListsMergeWithoutDuplicates ==
    merge_pc >= 1 =>
        \A k \in DOMAIN merge_source.fields \cap DOMAIN merge_overrides.fields :
            LET base == merge_source.fields[k]
                patch == merge_overrides.fields[k]
            IN  (IsList(base) /\ IsList(patch)) =>
                    /\ merge_out[1].fields[k] =
                            List(base.items \o NewInOrder(base.items, patch.items, 1))
                    /\ \A n \in 1..Len(merge_out) :
                        \A i \in DOMAIN base.items :
                            Occurrences(base.items, base.items[i]) = 1 =>
                                /\ IsList(merge_out[n].fields[k])
                                /\ Occurrences(merge_out[n].fields[k].items,
                                               base.items[i]) <= 1

\* Does everything in base that patch does not override survive in merged?
\* Where both hold dicts: every sub-key of base is kept, with its value if
\* the patch dict lacks it and recursively otherwise. Where both hold lists:
\* every element of base is kept.
RECURSIVE Survives(_, _, _)
Survives(base, patch, merged) ==
    IF IsDict(base) /\ IsDict(patch)
    THEN /\ IsDict(merged)
         /\ \A sub \in DOMAIN base.fields :
                /\ sub \in DOMAIN merged.fields
                /\ IF sub \in DOMAIN patch.fields
                   THEN Survives(base.fields[sub], patch.fields[sub],
                                 merged.fields[sub])
                   ELSE merged.fields[sub] = base.fields[sub]
    ELSE IF IsList(base) /\ IsList(patch)
    THEN /\ IsList(merged)
         /\ \A i \in DOMAIN base.items : Contains(merged.items, base.items[i])
    ELSE TRUE

\* C12: a merge removes nothing it does not override: sub-keys of a dict the
\* overrides' dict does not name and elements of a list survive, also when
\* the overrides hold an empty dict or an empty list at that key.
C12_MergeKeepsUnrelatedData ==
    merge_pc >= 1 => Survives(merge_source, merge_overrides, merge_out[1])

\* C13: for patches that share no top-level key, merging overrides and then
\* overrides_b into a document gives the document that merging overrides_b
\* and then overrides gives.
C13_DisjointMergesCommute ==
    merge_pc = 4 => merge_out[2] = merge_out[4]

\* Both orders done, with patches of one key each, both keys stored before,
\* and each patch changing the document it was merged into.
C13_Witness ==
    /\ merge_pc = 4
    /\ DOMAIN merge_source.fields = Keys
    /\ DOMAIN merge_overrides.fields # {}
    /\ DOMAIN merge_overrides_b.fields # {}
    /\ merge_out[1] # merge_source
    /\ merge_out[2] # merge_out[1]
    /\ merge_out[3] # merge_source
    /\ merge_out[4] # merge_out[3]
    /\ merge_out[1] # merge_out[3]

(***************************************************************************)
(*                     Claims about the task operations                    *)
(***************************************************************************)

\* C1: after every task operation (manage_tasks add, manage_tasks update,
\* update_tasks_and_persist) every stored task has status 'completed' if and
\* only if its completed_at is not null.
C1_CompletedIffCompletedAt ==
    \A x \in tasks : (x.status = "completed") <=> (x.completed_at # NULL)

\* An operation has just moved a task into 'completed' and stamped it.
C1_Witness ==
    /\ ops >= 1
    /\ last_result.status = "success"
    /\ \E x \in tasks : x.status = "completed" /\ x.completed_at = now - 1
    /\ \E x \in tasks : x.status # "completed" /\ x.completed_at = NULL

\* C25: an operation changes the completed_at of a stored task only if it
\* moves the task's status into or out of 'completed': an update that sets
\* 'completed' on a completed task or changes only description or deadline,
\* and a bulk replace that keeps the status, leave completed_at as it was.
C25_CompletedAtOnlyOnTransition ==
    [][\A x \in tasks : \A y \in tasks' :
            (x.id = y.id /\ x.completed_at # y.completed_at) =>
                ((x.status = "completed") # (y.status = "completed"))]_vars

(***************************************************************************)
(*                     Claims about the bulk replace                       *)
(***************************************************************************)

\* C14: after update_tasks_and_persist(S, user) has returned, the ids of
\* the user's stored tasks are the previously stored ids that occur in S,
\* and each of these tasks carries the description, status and deadline
\* submitted for its id.
C14_BulkReplaceReconciles ==
    (bulk.pc = "committed" /\ bulk.kind = "tasks") =>
        /\ CurrentIds(tasks, bulk.user_id) =
                CurrentIds(bulk.entry_tasks, bulk.user_id) \cap SubmittedIds(bulk.rows)
        /\ \A x \in tasks :
                x.user_id = bulk.user_id =>
                    \E i \in DOMAIN bulk.rows :
                        /\ bulk.rows[i].id = x.id
                        /\ x.description = bulk.rows[i].description
                        /\ x.status = bulk.rows[i].status
                        /\ x.deadline = bulk.rows[i].deadline

\* A committed replace that deleted a stored task and changed the fields of
\* another.
C14_Witness ==
    /\ bulk.pc = "committed"
    /\ bulk.kind = "tasks"
    /\ bulk.ids_to_delete # {}
    /\ \E x \in tasks, y \in bulk.entry_tasks :
            /\ x.id = y.id
            /\ x.user_id = bulk.user_id
            /\ x.description # y.description
            /\ x.status # y.status

\* C15: a bulk replace of tasks or of log entries that raises or is
\* interrupted before its commit leaves the store as it was; the store never
\* holds the deletions without every submitted update.
C15_BulkReplaceAtomic ==
    /\ bulk.pc \in {"delete", "update", "raised", "interrupted"} =>
            /\ tasks = bulk.entry_tasks
            /\ text_inputs = bulk.entry_logs
    /\ bulk.pc = "committed" =>
            /\ bulk.i = Len(bulk.rows)
            /\ tasks = bulk.session_tasks
            /\ text_inputs = bulk.session_logs

\* A replace that had deleted rows and applied a submitted row in its
\* session when a later row raised or the call was interrupted.
C15_Witness ==
    /\ bulk.pc \in {"raised", "interrupted"}
    /\ bulk.ids_to_delete # {}
    /\ bulk.i >= 1
    /\ bulk.session_tasks # bulk.entry_tasks \/ bulk.session_logs # bulk.entry_logs
    /\ \E x \in bulk.entry_tasks \cup bulk.entry_logs :
            x.id \in bulk.ids_to_delete /\ x.user_id = bulk.user_id

\* C26: after a bulk replace of tasks or of log entries has committed, every
\* submitted row that carries no id, or an id that is none of the user's
\* stored rows, is in the store as a row of that user with the submitted
\* fields.
C26_BulkReplaceUpserts ==
    bulk.pc = "committed" =>
        \A i \in DOMAIN bulk.rows :
            LET row == bulk.rows[i]
                stored == CurrentIds(IF bulk.kind = "tasks" THEN bulk.entry_tasks
                                     ELSE bulk.entry_logs, bulk.user_id)
            IN  (row.id = NULL \/ row.id \notin stored) =>
                    IF bulk.kind = "tasks"
                    THEN \E x \in tasks :
                            /\ x.user_id = bulk.user_id
                            /\ x.description = row.description
                            /\ x.status = row.status
                            /\ x.deadline = row.deadline
                    ELSE \E x \in text_inputs :
                            /\ x.user_id = bulk.user_id
                            /\ x.content = row.content
                            /\ x.category = row.category

(***************************************************************************)
(*                     Claims about the profile update                     *)
(***************************************************************************)

\* C16: a profile update with replace=True and a JSON text leaves the stored
\* profile equal to the submitted document, whatever was stored; with
\* replace=False and a JSON object it leaves deep_update(prior, submitted);
\* and an update made by get_chat_response leaves deep_update(prior,
\* submitted), never the submitted document alone.
C16_ReplaceOverwritesMergeMerges ==
    LET submitted == JsonLoads(profile_call.background_update_json)
        stored == background_info[profile_call.user_id]
        merged == deep_update(ContentOrEmpty(profile_call.prior), submitted.value)
    IN  (profile_call.pc = "done" /\ submitted.outcome = "value") =>
            /\ (profile_call.via = "app" /\ profile_call.replace) =>
                    /\ profile_call.result.status = "success"
                    /\ stored = submitted.value
            /\ (/\ profile_call.via = "app"
                /\ ~profile_call.replace
                /\ IsDict(submitted.value)
                /\ IsDict(ContentOrEmpty(profile_call.prior))) =>
                    /\ profile_call.result.status = "success"
                    /\ stored = merged
            /\ (/\ profile_call.via = "chat"
                /\ IsDict(submitted.value)
                /\ IsDict(ContentOrEmpty(profile_call.prior))) =>
                    /\ profile_call.result.status = "success"
                    /\ stored = merged

\* An update from get_chat_response merged into a stored profile that held
\* more than the patch names, after which the profile is neither the patch
\* nor what it was.
C16_Witness ==
    /\ profile_call.pc = "done"
    /\ profile_call.via = "chat"
    /\ profile_call.result.status = "success"
    /\ profile_call.prior # EmptyDict
    /\ background_info[profile_call.user_id] # profile_call.prior
    /\ background_info[profile_call.user_id] #
            JsonLoads(profile_call.background_update_json).value

\* C29: when two merge-mode profile updates of one user, with patches that
\* share no top-level key, have both committed, in whatever way their
\* statements interleaved, the stored profile holds the keys and values of
\* both patches: merging either patch into it again changes nothing.
C29_NoLostProfileUpdate ==
    \A a, b \in SessionIds :
        LET pa == JsonLoads(profile_sessions[a].background_update_json).value
            pb == JsonLoads(profile_sessions[b].background_update_json).value
            stored == background_info[profile_sessions[a].user_id]
        IN  (/\ a # b
             /\ profile_sessions[a].pc = "done"
             /\ profile_sessions[b].pc = "done"
             /\ profile_sessions[a].result.status = "success"
             /\ profile_sessions[b].result.status = "success"
             /\ profile_sessions[a].user_id = profile_sessions[b].user_id
             /\ DOMAIN pa.fields \cap DOMAIN pb.fields = {}) =>
                /\ deep_update(stored, pa) = stored
                /\ deep_update(stored, pb) = stored

(***************************************************************************)
(*                 Claims about single calls of manage_tasks               *)
(***************************************************************************)

\* A deadline string that neither parser reads.
Unparseable(deadline) ==
    Truthy(deadline) /\ deadline \notin {IsoString, BareDate, UnpaddedDate}

StoredDeadline ==
    LET id == IF task_call.action = "add" THEN task_call.entry_next_task_id
              ELSE task_call.task_id
    IN  (CHOOSE x \in tasks : x.id = id).deadline

\* C19: a successful add or update with a bare date YYYY-MM-DD stores that
\* date with the UTC time of day of the call; with a full ISO timestamp it
\* stores the instant the timestamp denotes.
C19_BareDateGetsCurrentTime ==
    (/\ task_call.pc = "done"
     /\ task_call.action \in {"add", "update"}
     /\ task_call.result.status = "success") =>
        /\ task_call.deadline = BareDate =>
                StoredDeadline = [date |-> "2025-03-02",
                                  time |-> <<"now", task_call.entry_now>>]
        /\ task_call.deadline = IsoString =>
                StoredDeadline = [date |-> "2025-03-01", time |-> <<"10:00", 0>>]

\* The place of a status in a listing, as the claim states it.
ListingGroup(status) ==
    CASE status = "in_progress" -> 1
      [] status = "open" -> 2
      [] status = "completed" -> 3
      [] OTHER -> 4

\* C20: manage_tasks list returns exactly the caller's tasks, those of
\* task_status only when that is one of the three statuses, each once, with
\* in_progress before open before completed and, within a status, later
\* created tasks first.
C20_ListFiltersAndOrders ==
    (task_call.pc = "done" /\ task_call.action = "list") =>
        LET listing == task_call.listing
            filtered == Truthy(task_call.task_status)
                            /\ task_call.task_status \in AllowedStatuses
            expected == {x \in task_call.entry_tasks :
                            /\ x.user_id = task_call.user_id
                            /\ filtered => x.status = task_call.task_status}
        IN  /\ task_call.result.status = "success"
            /\ {listing[i] : i \in DOMAIN listing} = expected
            /\ Len(listing) = Cardinality(expected)
            /\ \A i, j \in DOMAIN listing :
                    i < j =>
                        /\ ListingGroup(listing[i].status) <=
                                ListingGroup(listing[j].status)
                        /\ listing[i].status = listing[j].status =>
                                listing[i].created_at >= listing[j].created_at
            /\ tasks = task_call.entry_tasks

\* An unfiltered listing for a user with tasks of all three statuses, while
\* another user has tasks too.
C20_Witness ==
    /\ task_call.pc = "done"
    /\ task_call.action = "list"
    /\ ~Truthy(task_call.task_status)
    /\ Len(task_call.listing) >= 6
    /\ {task_call.listing[i].status : i \in DOMAIN task_call.listing} = AllowedStatuses
    /\ \E x \in tasks : x.user_id # task_call.user_id

(***************************************************************************)
(*                       Claims about row ownership                        *)
(***************************************************************************)

\* Everything the store holds for one user.
OwnedRows(v) ==
    <<{x \in tasks : x.user_id = v},
      {x \in text_inputs : x.user_id = v},
      background_info[v],
      {r \in newsletter_logs : r.user_id = v}>>

\* The step is one of an operation running for user u.
ActingFor(u) ==
    \/ chat' # chat /\ chat'.user_id = u
    \/ bulk' # bulk /\ bulk'.user_id = u
    \/ profile_call' # profile_call /\ profile_call'.user_id = u
    \/ task_call' # task_call /\ task_call'.user_id = u
    \/ purge_call' # purge_call /\ purge_call'.user_id = u

\* A purge of this user has committed.
Purged(u) ==
    purge_call.pc = "done" /\ purge_call.user_id = u /\ purge_call.result

\* C21: no step of a chat turn, a bulk replace of tasks or of log entries, a
\* profile update, a call of manage_tasks or a purge running for user u
\* changes what the store holds for another user v; and manage_tasks update
\* with the id of a task of another user returns the not-found error and
\* leaves that task as it was.
C21_NoCrossUserWrites ==
    /\ [][\A u, v \in UserIds :
            (ActingFor(u) /\ v # u) => OwnedRows(v)' = OwnedRows(v)]_vars
    /\ [](\A x \in task_call.entry_tasks :
            (/\ task_call.pc = "done"
             /\ task_call.action = "update"
             /\ x.id = task_call.task_id
             /\ x.user_id # task_call.user_id) =>
                /\ task_call.result = Result("error", "Task with ID not found.")
                /\ x \in tasks \/ Purged(x.user_id))

\* manage_tasks update was called for one user with the id of another user's
\* task, a status and a description, and that task is still stored.
C21_Witness ==
    /\ task_call.pc = "done"
    /\ task_call.action = "update"
    /\ task_call.task_status = "completed"
    /\ Truthy(task_call.task_description)
    /\ \E x \in tasks :
            /\ x.id = task_call.task_id
            /\ x.user_id # task_call.user_id
            /\ x.status = "open"
    /\ \E y \in tasks : y.user_id = task_call.user_id

(***************************************************************************)
(*                     Claims about the rate limiter                       *)
(***************************************************************************)

HasRow(c) == \E r \in newsletter_logs : r.id = c

\* C6: for sequential calls for one user within one day, with SMTP
\* configured and every delivery succeeding, the first, second and third
\* calls are not skipped and each persists a NewsletterLog row, and the
\* fourth is skipped and persists nothing. (Checked under SpecNewsSeq.)
C6_ThreeDigestsPerDay ==
    \A c \in CallIds :
        (/\ today = 0
         /\ creds = "complete"
         /\ nlCall[c].pc = "done"
         /\ \A d \in 1..c : /\ nlCall[d].user_id = nlCall[c].user_id
                            /\ nlCall[d].status # "error")
        => IF c <= DocumentedDailyLimit
           THEN nlCall[c].status = "success" /\ HasRow(c)
           ELSE nlCall[c].status = "skipped" /\ ~HasRow(c)

\* C7: under any interleaving of concurrent calls for the same user on the
\* same day, the number of digests logged that day exceeds the daily cap by
\* at most one.
C7_AtMostOneOverCap ==
    \A u \in UserIds, d \in 0..MaxDay :
        TodaysLogCount(newsletter_logs, u, d) <= DailyCap + 1

\* C8: a call whose rate check finds the count of today's rows at or above
\* the cap returns status=skipped, and has invoked no model, written no
\* NewsletterLog row and attempted no email.
C8_SkipTouchesNothing ==
    \A c \in CallIds :
        (nlCall[c].pc # "idle" /\ nlCall[c].todays_log_count >= DailyCap)
        => /\ nlCall[c].pc = "done"
           /\ nlCall[c].status = "skipped"
           /\ ~nlCall[c].llm_invoked
           /\ ~nlCall[c].log_saved
           /\ ~nlCall[c].email_attempted
           /\ ~HasRow(c)

C8_Witness ==
    \E c \in CallIds :
        /\ nlCall[c].status = "skipped"
        /\ nlCall[c].todays_log_count >= DailyCap
        /\ nlCall[c].pc = "done"

\* C9: a call whose digest was generated and whose delivery failed returns
\* status=error, and the row written for that digest is still in the table,
\* among the rows a rate check of that user and day counts.
C9_FailedDeliveryKeepsLog ==
    \A c \in CallIds :
        (/\ nlCall[c].pc = "done"
         /\ nlCall[c].llm_invoked
         /\ nlCall[c].status # "success")
        => /\ nlCall[c].status = "error"
           /\ \E r \in newsletter_logs :
                /\ r.id = c
                /\ r \in TodaysLogs(newsletter_logs, nlCall[c].user_id, r.created_day)
                /\ TodaysLogCount(newsletter_logs, nlCall[c].user_id, r.created_day) >= 1

C9_Witness ==
    \E c \in CallIds :
        /\ nlCall[c].pc = "done"
        /\ nlCall[c].llm_invoked
        /\ nlCall[c].email_attempted
        /\ nlCall[c].status = "error"
        /\ HasRow(c)

\* C30: a call whose digest model invocation raised or returned no text
\* persists no NewsletterLog row, so that nothing of it is counted by a
\* later rate check, and attempts no email.
C30_NoDigestWithoutContent ==
    \A c \in CallIds :
        nlCall[c].llm_outcome \in {"no_text", "raised"} =>
            /\ ~HasRow(c)
            /\ ~nlCall[c].log_saved
            /\ ~nlCall[c].email_attempted
            /\ nlCall[c].status # "success"

(***************************************************************************)
(* Claims about get_chat_response                                          *)
(***************************************************************************)

\* Is this message one of the pieces of the reply?
InReply(message) ==
    \E i \in 1..Len(chat.text_response) : chat.text_response[i] = message

\* C2: when the model call raises, returns no candidates or returns a
\* candidate without parts, the turn ends with an error reply and the
\* transcript is the one the call started with, the user turn not appended.
C2_ModelFailureLeavesTranscript ==
    chat.model_outcome \in ModelFailures =>
        /\ chat.pc = "returned"
        /\ chat.text_response \in {<<ModelErrorReply>>, <<NoResponseReply>>}
        /\ conversation_history = chat.entry_history

\* C3: once the turn has returned, every executed call whose outcome is an
\* error has its error message, or the unknown-function message for its
\* name, among the pieces of the reply.
C3_ToolErrorsVisibleInReply ==
    chat.pc = "returned" =>
        \A i \in 1..Len(chat.results) :
            chat.results[i].status = "error" =>
                \/ InReply(chat.results[i].message)
                \/ InReply(UnknownFunctionUiMessage(chat.results[i].name))

\* C4: get_chat_response never raises to its caller, and when it returns
\* after a response with calls c1..cn it has executed every one of them, in
\* the order received.
C4_EveryCallExecutedNoRaise ==
    /\ chat.pc # "raised"
    /\ (chat.pc = "returned" /\ chat.model_outcome = "content") =>
            /\ Len(chat.results) = Len(chat.function_calls)
            /\ \A i \in 1..Len(chat.results) :
                    chat.results[i].name = chat.function_calls[i].name

IsUnknownCall(fc) == fc.name \notin ToolNames

\* A call that mutates the store and whose arguments the implementation
\* accepts, judged against the store the turn started from.
IsValidMutation(fc) ==
    CASE fc.name = "add_log_entry" -> Truthy(fc.text_input)
      [] fc.name = "update_background_info" ->
            /\ JsonLoads(fc.background_update_json).outcome = "value"
            /\ IsDict(JsonLoads(fc.background_update_json).value)
      [] fc.name = "manage_tasks" /\ fc.action = "add" ->
            /\ Truthy(fc.task_description)
            /\ Truthy(fc.deadline) => ParseDeadline(fc.deadline, 0).ok
      [] fc.name = "manage_tasks" /\ fc.action = "update" ->
            /\ fc.task_id # NULL
            /\ TaskOf(chat.entry_tasks, fc.task_id, chat.user_id) # {}
            /\ Truthy(fc.task_status) => ValidStatus(fc.task_status)
            /\ Truthy(fc.deadline) => ParseDeadline(fc.deadline, 0).ok
      [] OTHER -> FALSE

\* The store holds what the call asked for.
MutationPersisted(fc) ==
    CASE fc.name = "add_log_entry" ->
            \E r \in text_inputs \ chat.entry_text_inputs :
                /\ r.user_id = chat.user_id
                /\ r.content = fc.text_input
                /\ r.id >= chat.entry_next_log_id
      [] fc.name = "update_background_info" ->
            background_info[chat.user_id] =
                deep_update(chat.entry_background_info,
                            JsonLoads(fc.background_update_json).value)
      [] fc.name = "manage_tasks" /\ fc.action = "add" ->
            \E x \in tasks \ chat.entry_tasks :
                /\ x.user_id = chat.user_id
                /\ x.description = fc.task_description
                /\ x.status = "open"
                /\ x.id >= chat.entry_next_task_id
      [] fc.name = "manage_tasks" /\ fc.action = "update" ->
            \E x \in tasks :
                /\ x.id = fc.task_id
                /\ x.user_id = chat.user_id
                /\ Truthy(fc.task_status) => x.status = fc.task_status
      [] OTHER -> FALSE

\* C5: a response of one valid call and one call to a name that is no tool,
\* in either order, never raises, and once the turn has returned the valid
\* call's mutation is in the store and the reply holds the error message
\* naming the unknown function.
C5_ValidAndUnknownCall ==
    \A i, j \in 1..Len(chat.function_calls) :
        (/\ Len(chat.function_calls) = 2
         /\ i # j
         /\ IsUnknownCall(chat.function_calls[i])
         /\ IsValidMutation(chat.function_calls[j])) =>
            /\ chat.pc # "raised"
            /\ chat.pc = "returned" =>
                    /\ MutationPersisted(chat.function_calls[j])
                    /\ InReply(UnknownFunctionUiMessage(chat.function_calls[i].name))

\* A returned turn whose response named an unknown function first and asked
\* for a valid task update second, with a sentence of text beside them.
C5_Witness ==
    /\ chat.pc = "returned"
    /\ Len(chat.function_calls) = 2
    /\ IsUnknownCall(chat.function_calls[1])
    /\ chat.function_calls[2].action = "update"
    /\ IsValidMutation(chat.function_calls[2])
    /\ Strip(Join(chat.llm_text_responses, Blank)) # <<>>
    /\ tasks # chat.entry_tasks

\* C22: when a recording is supplied and transcribe_audio returns nothing,
\* get_chat_response returns the audio-not-understood reply without calling
\* the chat model and without executing a tool call, and the transcript and
\* the store are what they were.
C22_FailedTranscriptionAbortsTurn ==
    (chat.pc # "idle" /\ chat.audio = "failed") =>
        /\ chat.pc = "returned"
        /\ chat.text_response = <<AudioFailedReply>>
        /\ chat.model_outcome = "none"
        /\ chat.function_calls = <<>>
        /\ chat.results = <<>>
        /\ conversation_history = chat.entry_history
        /\ tasks = chat.entry_tasks
        /\ text_inputs = chat.entry_text_inputs
        /\ background_info[chat.user_id] = chat.entry_background_info

\* A turn with a recording that was not understood, sent together with
\* typed text in a conversation that already has turns.
C22_Witness ==
    /\ chat.pc = "returned"
    /\ chat.audio = "failed"
    /\ chat.entry_history # <<>>
    /\ chat.text_response = <<AudioFailedReply>>

\* The outcome message of the i-th executed call, read off its recorded
\* result: the message of a success, the header of a non-empty listing, the
\* unknown-function message; None for a call that has none.
OutcomeMessage(i) ==
    LET fc == chat.function_calls[i]
        res == chat.results[i]
    IN  IF fc.name \notin ToolNames THEN UnknownFunctionUiMessage(fc.name)
        ELSE IF res.status # "success" THEN None
        ELSE IF res.tasks # <<>> THEN ListHeader(fc.task_status)
        ELSE res.message

\* The outcome messages of calls i, i+1, ... in call order.
RECURSIVE OutcomeMessagesFrom(_)
OutcomeMessagesFrom(i) ==
    IF i > Len(chat.results) THEN <<>>
    ELSE (IF Truthy(OutcomeMessage(i)) THEN <<OutcomeMessage(i)>> ELSE <<>>)
         \o OutcomeMessagesFrom(i + 1)

\* C23: the reply of a turn in which the model returned content is its text
\* parts joined (and stripped) followed by the outcome messages of the tool
\* calls in call order; with calls and no text it is the joined outcome
\* messages alone; with neither text nor a call it is the fallback sentence,
\* and the transcript ends with a model turn holding that sentence.
C23_ReplyComposition ==
    (chat.pc = "returned" /\ chat.model_outcome = "content") =>
        LET text == Strip(Join(chat.llm_text_responses, Blank))
            messages == Join(OutcomeMessagesFrom(1), "  \n\n")
        IN  /\ (text # <<>> /\ messages # <<>>) =>
                    chat.text_response = text \o <<"\n\n">> \o messages
            /\ (text # <<>> /\ messages = <<>>) => chat.text_response = text
            /\ (text = <<>> /\ chat.function_calls # <<>>) =>
                    chat.text_response = messages
            /\ (text = <<>> /\ chat.function_calls = <<>>) =>
                    /\ chat.text_response = <<FallbackReply>>
                    /\ conversation_history[Len(conversation_history)] =
                            ModelTurn(<<FallbackReply>>, <<>>)

\* A returned turn with a sentence of text and two calls that each left an
\* outcome message.
C23_Witness ==
    /\ chat.pc = "returned"
    /\ chat.model_outcome = "content"
    /\ Strip(Join(chat.llm_text_responses, Blank)) # <<>>
    /\ Len(chat.function_calls) = 2
    /\ Len(chat.ui_update_messages) = 2
    /\ chat.ui_update_messages[1] # chat.ui_update_messages[2]
    /\ Len(chat.text_response) > 3

\* C24: a turn in which the model returned content and that has returned
\* left the transcript it was given, unchanged and in place, followed by one
\* user turn, one function turn per call in call order (failed and unknown
\* calls included) and one model turn, and nothing else.
C24_TurnAppendsExactly ==
    (chat.pc = "returned" /\ chat.model_outcome = "content") =>
        LET before == Len(chat.entry_history)
            calls == Len(chat.function_calls)
        IN  /\ Len(conversation_history) = before + 1 + calls + 1
            /\ SubSeq(conversation_history, 1, before) = chat.entry_history
            /\ conversation_history[before + 1].role = "user"
            /\ \A i \in 1..calls :
                    /\ conversation_history[before + 1 + i] =
                            FunctionTurn(chat.results[i])
                    /\ chat.results[i].name = chat.function_calls[i].name
            /\ conversation_history[before + calls + 2].role = "model"

\* C27: every call of get_chat_response that returns yields a text_response
\* that is not empty, whatever text parts and function calls the model sent.
C27_ReplyNeverEmpty ==
    chat.pc = "returned" => chat.text_response # <<>>

\* C28: in the transcript a returned turn leaves, every function turn added
\* by the turn stands after a model turn, added by the same turn, that holds
\* the function call it answers.
C28_ResultAfterItsCall ==
    (chat.pc = "returned" /\ chat.model_outcome = "content") =>
        \A i \in (Len(chat.entry_history) + 1)..Len(conversation_history) :
            conversation_history[i].role = "function" =>
                \E j \in (Len(chat.entry_history) + 1)..(i - 1) :
                    /\ conversation_history[j].role = "model"
                    /\ \E k \in DOMAIN conversation_history[j].function_calls :
                            conversation_history[j].function_calls[k].name =
                                conversation_history[i].function_response.name

\* C17: an add_log_entry call whose text_input is empty or missing ends in
\* an error result and no row of text_inputs is created for it.
C17_EmptyLogTextRejected ==
    \A i \in 1..Len(chat.function_calls) :
        LET fc == chat.function_calls[i]
            reached == \/ i <= Len(chat.results)
                       \/ chat.pc = "raised" /\ i = Len(chat.results) + 1
        IN  (fc.name = "add_log_entry" /\ ~Truthy(fc.text_input) /\ reached) =>
                /\ i <= Len(chat.results)
                /\ chat.results[i].status = "error"
                /\ \A row \in text_inputs \ chat.entry_text_inputs :
                        row.content # fc.text_input

====
